---- MODULE Spec2Model ----
(***************************************************************************)
(* ResearchLens: the local persistence and analysis-cache layer            *)
(* (electron/database.cjs and the IPC handlers of electron/main.cjs).      *)
(*                                                                         *)
(* The SQLite tables are sets of row records, every exported database      *)
(* function is an operator on those tables and every IPC handler is one    *)
(* action: the handlers are synchronous callbacks of a single-threaded     *)
(* process, so each one runs to completion before the next starts.         *)
(***************************************************************************)
EXTENDS Integers, Sequences, FiniteSets, TLC

\* ------------------------------------------------------------------ bounds

\* number of save-analysis calls in one behaviour
MaxCalls == 2

\* number of save-analysis calls of concurrent analyses in one behaviour
MaxInterleaved == 3

\* number of launches of the application in one behaviour
MaxLaunches == 2

\* largest page size and largest offset asked of getDatasetRows
MaxPageSize == 2
MaxOffset == 3

\* rows written per chunk by export-dataset-csv (500 in the program)
CHUNK_SIZE == 2

\* AI calls the renderer starts for one document in one behaviour
MaxAnalyses == 3

\* ------------------------------------------------------------- identifiers

NULL == "null"

\* uuidv4() results: never handed out twice (see `used`)
FileIds == {"f1", "f2"}
FolderIds == {"g1", "g2"}
DatasetIds == {"d1", "d2"}
RowIdsOf(d) == IF d = "d1" THEN <<"r2", "r1", "r3">> ELSE <<"r4">>
RowIds == {"r1", "r2", "r3", "r4"}
SubjectIds == FileIds \cup RowIds

\* binary collation (SQLite's default for TEXT) of the strings the model uses
Collation ==
  <<"default", "f1", "f2", "gemini-2.5-flash", "gemini-2.5-pro", "metadata",
    "methods", "r1", "r2", "r3", "r4", "summary", "system">>
Collate(s) == CHOOSE i \in 1..Len(Collation) : Collation[i] = s

\* ------------------------------------------------------------------- state

VARIABLES
  folders,        \* table folders: set of folder ids
  files,          \* table files: set of [id, folderId]
  datasets,       \* table datasets: set of [id, rowCount]
  dataset_rows,   \* table dataset_rows: set of [id, datasetId, rowIndex]
  analysis,       \* table analysis: set of cache rows
  settings,       \* table settings: set of [key, value]
  custom_columns, \* table custom_columns: set of column ids
  column_configs, \* table column_configs: set of folder ids that have a config
  used,           \* identifiers uuidv4() has already returned
  now,            \* the wall clock, in milliseconds
  calls,          \* history: the save-analysis calls made, in order
  writes,         \* history: the parameters of every insert.run, in order
  last,           \* history: the handler that ran last
  schema,         \* sqlite_master: the layout of the tables on disk
  app,            \* the main process: running or not, completed launches
  request,        \* the renderer's request being served across awaits
  reply,          \* what the handler returned to the renderer
  renderer        \* the renderer's state of one document and its AI calls

tables ==
  <<folders, files, datasets, dataset_rows, analysis, settings, custom_columns,
    column_configs>>
subjectTables == <<folders, files, datasets, dataset_rows>>
prefTables == <<settings, custom_columns, column_configs>>
history == <<calls, writes>>
session == <<schema, app, request, reply, renderer>>
vars == <<tables, used, now, history, last, session>>

\* --------------------------------------------------------------- JS values

\* A JS value is a string or an object; "jsonstr" is a string whose
\* characters happen to be the JSON text of the object v.
Str(s) == [t |-> "str", v |-> s]
Obj(o) == [t |-> "obj", v |-> o]
JsonStr(o) == [t |-> "jsonstr", v |-> o]

\* a JS boolean: neither a string nor an object, stored as it is
NotText == "boolean"
Bool == [t |-> "bool", v |-> NotText]

\* The TEXT stored in analysis.content: json says that the text starts with
\* '{' and is the JSON serialisation of the object v.
JSONstringify(val) == [json |-> TRUE, v |-> val.v]

contentToSave(val) ==
  IF val.t = "obj" THEN JSONstringify(val)
  ELSE [json |-> val.t = "jsonstr", v |-> val.v]

\* getAllFiles / getDatasetRows: "Parse JSON content if it looks like JSON"
parseContent(text) ==
  IF text.json THEN Obj(text.v) ELSE Str(text.v)

\* ---------------------------------------------------------- result bundles

\* results: [metadata |-> <<>> or <<object>>,
\*           _models |-> function key -> model (empty when absent),
\*           _responses |-> <<>> or << sequence of [colId, modelMap] >>,
\*           _usage |-> <<>> or <<[promptTokens, responseTokens]>>,
\*           fields |-> the other top-level keys, in Object.entries order]
NoModels == [k \in {} |-> ""]

Bundle(meta, models, responses, usage, fields) ==
  [metadata |-> meta, _models |-> models, _responses |-> responses,
   _usage |-> usage, fields |-> fields]

Usage(p, r) == <<[promptTokens |-> p, responseTokens |-> r]>>
Field(k, val) == [key |-> k, value |-> val]
Resp(c, mm) == [colId |-> c, modelMap |-> mm]
By(m, val) == [modelId |-> m, content |-> val]

\* results._usage || { promptTokens: 0, responseTokens: 0 }
usageOf(results) ==
  IF results._usage = <<>> THEN [promptTokens |-> 0, responseTokens |-> 0]
  ELSE results._usage[1]

\* models[key] || dflt
modelOr(models, key, dflt) ==
  IF key \in DOMAIN models THEN models[key] ELSE dflt

\* ------------------------------------------------------------ saveAnalysis

\* the nested loops over Object.entries(results._responses)
RECURSIVE responseEntries(_)
responseEntries(resp) ==
  IF resp = <<>> THEN <<>>
  ELSE LET h == Head(resp) IN
       [i \in 1..Len(h.modelMap) |->
          [columnId |-> h.colId, model |-> h.modelMap[i].modelId,
           content |-> h.modelMap[i].content]]
       \o responseEntries(Tail(resp))

\* the fallback loop without the _models lookup: every row tagged "default"
fallbackEntriesUntagged(results) ==
  [i \in 1..Len(results.fields) |->
     [columnId |-> results.fields[i].key, model |-> "default",
      content |-> results.fields[i].value]]

\* the fallback loop over Object.entries(results), reserved keys skipped
fallbackEntries(results) ==
  [i \in 1..Len(results.fields) |->
     [columnId |-> results.fields[i].key,
      model |-> modelOr(results._models, results.fields[i].key, "default"),
      content |-> results.fields[i].value]]

\* the body of both loops: the token charge of each insert.run
RECURSIVE chargedRuns(_, _, _, _, _)
chargedRuns(entries, fileId, timestamp, usage, tokensCharged) ==
  IF entries = <<>> THEN <<>>
  ELSE LET e == Head(entries)
           pTokens == IF ~tokensCharged THEN usage.promptTokens ELSE 0
           rTokens == IF ~tokensCharged THEN usage.responseTokens ELSE 0
           charged == tokensCharged \/ usage.promptTokens > 0
       IN <<[fileId |-> fileId, columnId |-> e.columnId,
             content |-> contentToSave(e.content), model |-> e.model,
             timestamp |-> timestamp,
             promptTokens |-> pTokens, responseTokens |-> rTokens]>>
          \o chargedRuns(Tail(entries), fileId, timestamp, usage, charged)

\* the parameters of every insert.run of one saveAnalysis call, in order
insertRuns(fileId, results, timestamp) ==
  LET usage == usageOf(results)
      hasMeta == results.metadata # <<>>
      metaRun ==
        IF hasMeta
        THEN <<[fileId |-> fileId, columnId |-> "metadata",
                content |-> JSONstringify(results.metadata[1]),
                model |-> modelOr(results._models, "metadata", "system"),
                timestamp |-> timestamp,
                promptTokens |-> usage.promptTokens,
                responseTokens |-> usage.responseTokens]>>
        ELSE <<>>
      entries ==
        IF results._responses # <<>>
        THEN responseEntries(results._responses[1])
        ELSE fallbackEntries(results)
  IN metaRun \o chargedRuns(entries, fileId, timestamp, usage, hasMeta)

sameKey(row, p) ==
  row.fileId = p.fileId /\ row.columnId = p.columnId /\ row.model = p.model

nextRowid(db) ==
  IF db = {} THEN 1
  ELSE 1 + (CHOOSE m \in {r.rowid : r \in db} : \A r \in db : r.rowid <= m)

\* INSERT OR REPLACE: the conflicting row is replaced, its counts are lost
insertOrReplace(db, p) ==
  {row \in db : ~sameKey(row, p)}
  \cup {[fileId |-> p.fileId, columnId |-> p.columnId,
          content |-> p.content, model |-> p.model,
          timestamp |-> p.timestamp,
          promptTokens |-> p.promptTokens,
          responseTokens |-> p.responseTokens,
          rowid |-> nextRowid(db)]}

\* the prepared statement `insert`:
\* INSERT ... ON CONFLICT(fileId, columnId, model) DO UPDATE SET ...
insert(db, p) ==
  IF \E row \in db : sameKey(row, p)
  THEN {IF sameKey(row, p)
        THEN [row EXCEPT !.content = p.content,
                         !.timestamp = p.timestamp,
                         !.promptTokens = row.promptTokens + p.promptTokens,
                         !.responseTokens = row.responseTokens + p.responseTokens]
        ELSE row : row \in db}
  ELSE db \cup {[fileId |-> p.fileId, columnId |-> p.columnId,
                 content |-> p.content, model |-> p.model,
                 timestamp |-> p.timestamp,
                 promptTokens |-> p.promptTokens,
                 responseTokens |-> p.responseTokens,
                 rowid |-> nextRowid(db)]}

\* better-sqlite3 binds numbers, strings, bigints, buffers and null:
\* insert.run throws a TypeError on any other content
bindable(p) == p.content.v # NotText

throws(runs) == \E i \in 1..Len(runs) : ~bindable(runs[i])

\* the insert.run calls of the transaction body, up to the first that throws
RECURSIVE runAll(_, _)
runAll(db, runs) ==
  IF runs = <<>> THEN [state |-> db, thrown |-> FALSE]
  ELSE IF ~bindable(Head(runs)) THEN [state |-> db, thrown |-> TRUE]
  ELSE runAll(insert(db, Head(runs)), Tail(runs))

\* db.transaction(fn)() without BEGIN / ROLLBACK: what fn wrote stays
transactionNoRollback(before, result) == result.state

\* db.transaction(fn)(): COMMIT when fn returns, ROLLBACK when it throws
transaction(before, result) ==
  IF result.thrown THEN before ELSE result.state

\* db.transaction(() => { ... })() of saveAnalysis, on the analysis table
saveAnalysisTx(db, fileId, results, timestamp) ==
  transaction(db, runAll(db, insertRuns(fileId, results, timestamp)))

\* ------------------------------------------------------------- getAllFiles

\* the order of "SELECT * FROM analysis WHERE fileId IN (...) ORDER BY
\* timestamp ASC": SQL leaves the order of rows with equal timestamps open.
\* SQLite returns them in scan order, which is rowid order when its plan
\* scans the table and (fileId, columnId, model) order when its plan
\* searches the primary-key index.
SortPlans == {"rowid", "index"}

indexKeyLess(r1, r2) ==
  \/ Collate(r1.fileId) < Collate(r2.fileId)
  \/ /\ r1.fileId = r2.fileId
     /\ \/ Collate(r1.columnId) < Collate(r2.columnId)
        \/ /\ r1.columnId = r2.columnId
           /\ Collate(r1.model) < Collate(r2.model)

scanBefore(plan, r1, r2) ==
  IF plan = "rowid" THEN r1.rowid < r2.rowid ELSE indexKeyLess(r1, r2)

orderBefore(plan, r1, r2) ==
  \/ r1.timestamp < r2.timestamp
  \/ r1.timestamp = r2.timestamp /\ scanBefore(plan, r1, r2)

RECURSIVE orderByTimestamp(_, _)
orderByTimestamp(plan, rows) ==
  IF rows = {} THEN <<>>
  ELSE LET first == CHOOSE r \in rows :
                      \A o \in rows \ {r} : orderBefore(plan, r, o)
       IN <<first>> \o orderByTimestamp(plan, rows \ {first})

NoMap == [k \in {} |-> <<>>]
put(m, k, val) == [x \in DOMAIN m \cup {k} |-> IF x = k THEN val ELSE m[x]]

\* analysisMap[row.fileId] = { _models: {}, _responses: {} }
newFileAnalysis ==
  [metadata |-> <<>>, fields |-> NoMap, _models |-> NoMap,
   _responses |-> NoMap, _usage |-> <<>>]

\* estimatedCost in units of 1e-8 dollars: 1.25 / 1e6 = 125e-8 per token
isPro(model) == model = "gemini-2.5-pro"
inputRate(model) == IF isPro(model) THEN 125 ELSE 10
outputRate(model) == IF isPro(model) THEN 500 ELSE 40

\* the body of allAnalysis.forEach(row => ...)
mergeRow(fa, row) ==
  LET content == parseContent(row.content)
      modelKey == IF row.model = "" THEN "default" ELSE row.model
      byModel == IF row.columnId \in DOMAIN fa._responses
                 THEN fa._responses[row.columnId] ELSE NoMap
      fa1 == IF row.columnId = "metadata"
             THEN [fa EXCEPT !.metadata = <<content>>]
             ELSE [fa EXCEPT
                     !._responses = put(@, row.columnId,
                                        put(byModel, modelKey, content)),
                     !.fields = put(@, row.columnId, content),
                     !._models = put(@, row.columnId, modelKey)]
      u0 == IF fa1._usage = <<>>
            THEN [promptTokens |-> 0, responseTokens |-> 0, estimatedCost |-> 0]
            ELSE fa1._usage[1]
      cost == row.promptTokens * inputRate(row.model)
              + row.responseTokens * outputRate(row.model)
  IN [fa1 EXCEPT !._usage =
        <<[promptTokens |-> u0.promptTokens + row.promptTokens,
           responseTokens |-> u0.responseTokens + row.responseTokens,
           estimatedCost |-> u0.estimatedCost + cost]>>]

RECURSIVE mergeRows(_, _)
mergeRows(analysisMap, rows) ==
  IF rows = <<>> THEN analysisMap
  ELSE LET row == Head(rows)
           fa == IF row.fileId \in DOMAIN analysisMap
                 THEN analysisMap[row.fileId] ELSE newFileAnalysis
       IN mergeRows(put(analysisMap, row.fileId, mergeRow(fa, row)), Tail(rows))

\* analysisMap[f.id] || {}
emptyAnalysis == newFileAnalysis

\* getAllFiles(): file id -> the analysis object returned for that file,
\* under the query plan `plan`
getAllFiles(plan) ==
  LET fileIds == {f.id : f \in files}
      allAnalysis ==
        orderByTimestamp(plan, {r \in analysis : r.fileId \in fileIds})
      analysisMap == mergeRows(NoMap, allAnalysis)
  IN [id \in fileIds |->
        IF id \in DOMAIN analysisMap THEN analysisMap[id] ELSE emptyAnalysis]

\* ----------------------------------------------------------- getDatasetRows

\* dataset_rows.data of a row, as the letters of its text
DataOf(id) ==
  CASE id = "r1" -> <<"a">>
    [] id = "r2" -> <<"b">>
    [] id = "r3" -> <<"a", "b">>
    [] OTHER -> <<"b", "a">>

\* search texts; the empty one means no search
Searches == {<<>>, <<"a">>, <<"b">>, <<"a", "b">>}

\* data LIKE '%search%'
like(text, search) ==
  \E i \in 1..(Len(text) - Len(search) + 1) :
    SubSeq(text, i, i + Len(search) - 1) = search

\* WHERE datasetId = ? [AND data LIKE ?]
matchingRows(datasetId, search) ==
  {r \in dataset_rows :
     /\ r.datasetId = datasetId
     /\ search = <<>> \/ like(DataOf(r.id), search)}

\* ORDER BY rowIndex ASC
RECURSIVE orderByRowIndex(_)
orderByRowIndex(rows) ==
  IF rows = {} THEN <<>>
  ELSE LET first == CHOOSE r \in rows : \A o \in rows : r.rowIndex <= o.rowIndex
       IN <<first>> \o orderByRowIndex(rows \ {first})

\* LIMIT ? OFFSET ?
limitOffset(seq, limit, offset) ==
  SubSeq(seq, offset + 1,
         IF offset + limit < Len(seq) THEN offset + limit ELSE Len(seq))

\* "SELECT * FROM analysis WHERE fileId IN (...)" has no ORDER BY: the rows
\* come in the scan order of the plan
RECURSIVE orderByScan(_, _)
orderByScan(plan, rows) ==
  IF rows = {} THEN <<>>
  ELSE LET first == CHOOSE r \in rows :
                      \A o \in rows \ {r} : scanBefore(plan, r, o)
       IN <<first>> \o orderByScan(plan, rows \ {first})

\* the body of allAnalysis.forEach(rec => ...) of getDatasetRows: every
\* column, 'metadata' too, is entered in _models and _responses; no _usage
mergeRec(ra, rec) ==
  LET content == parseContent(rec.content)
      byModel == IF rec.columnId \in DOMAIN ra._responses
                 THEN ra._responses[rec.columnId] ELSE NoMap
      ra1 == IF rec.columnId = "metadata"
             THEN [ra EXCEPT !.metadata = <<content>>]
             ELSE [ra EXCEPT !.fields = put(@, rec.columnId, content)]
  IN [ra1 EXCEPT
        !._models = put(@, rec.columnId, rec.model),
        !._responses = put(@, rec.columnId, put(byModel, rec.model, content))]

RECURSIVE mergeRecs(_, _)
mergeRecs(analysisMap, recs) ==
  IF recs = <<>> THEN analysisMap
  ELSE LET rec == Head(recs)
           ra == IF rec.fileId \in DOMAIN analysisMap
                 THEN analysisMap[rec.fileId] ELSE newFileAnalysis
       IN mergeRecs(put(analysisMap, rec.fileId, mergeRec(ra, rec)), Tail(recs))

\* getDatasetRows(datasetId, {limit, offset, search}) under the query plan
\* `plan`: [rows |-> the formatted rows, total |-> the count returned]
getDatasetRows(plan, datasetId, limit, offset, search) ==
  LET matching == matchingRows(datasetId, search)
      total == Cardinality(matching)
      rows == limitOffset(orderByRowIndex(matching), limit, offset)
      rowIds == {rows[i].id : i \in 1..Len(rows)}
      allAnalysis == orderByScan(plan, {r \in analysis : r.fileId \in rowIds})
      analysisMap == mergeRecs(NoMap, allAnalysis)
      formattedRows ==
        [i \in 1..Len(rows) |->
           [id |-> rows[i].id, datasetId |-> rows[i].datasetId,
            rowIndex |-> rows[i].rowIndex,
            analysis |-> IF rows[i].id \in DOMAIN analysisMap
                         THEN analysisMap[rows[i].id] ELSE emptyAnalysis]]
  IN IF rows = <<>> THEN [rows |-> <<>>, total |-> 0]
     ELSE [rows |-> formattedRows, total |-> total]

\* ipcMain.handle('get-dataset-rows'): page and pageSize to limit and offset
getDatasetRowsPage(plan, datasetId, page, pageSize, search) ==
  getDatasetRows(plan, datasetId, pageSize, (page - 1) * pageSize, search)

\* ------------------------------------------------------------------ schema

\* what table_info / sqlite_master tell about a table that does not exist
NoTable == [exists |-> FALSE]

\* the layout of an analysis table as initDatabase inspects it: pk3 says that
\* the primary key has three columns, fk that the definition holds
\* "REFERENCES files", tokens that the token columns exist
Layout(pk3, fk, tokens) ==
  [exists |-> TRUE, pk3 |-> pk3, fk |-> fk, tokens |-> tokens]

\* CREATE TABLE analysis of this version
CurrentLayout == Layout(TRUE, FALSE, TRUE)

\* the analysis tables earlier versions left behind
LegacyLayouts ==
  {Layout(FALSE, TRUE, FALSE), Layout(TRUE, TRUE, FALSE),
   Layout(TRUE, TRUE, TRUE)}

\* the datasets table: missing, without the headers column, or with it
DatasetsLayouts == {"none", "noHeaders", "headers"}

CurrentSchema ==
  [datasets |-> "headers", analysis |-> CurrentLayout, analysis_old |-> NoTable]

\* db.exec(CREATE TABLE IF NOT EXISTS ...) and the datasets 'headers' check
ensureTables(sch) == [sch EXCEPT !.datasets = "headers"]

\* a migration on every launch that finds an analysis table
needsMigrationAlways(sch) == sch.analysis.exists

\* needsMigration after the primary-key and the foreign-key checks
needsMigration(sch) ==
  /\ sch.analysis.exists
  /\ ~sch.analysis.pk3 \/ sch.analysis.fk

\* the rowids SQLite gives to rows inserted one by one into an empty table,
\* for rows read in rowid order
RECURSIVE renumber(_, _)
renumber(rows, n) ==
  IF rows = {} THEN {}
  ELSE LET r == CHOOSE x \in rows : \A y \in rows : x.rowid <= y.rowid
       IN {[r EXCEPT !.rowid = n]} \cup renumber(rows \ {r}, n + 1)

\* INSERT OR IGNORE of the rows, read in rowid order, into a table keyed by
\* (fileId, columnId, model): a row whose key is already there is skipped
RECURSIVE insertOrIgnore(_, _)
insertOrIgnore(into, rows) ==
  IF rows = {} THEN into
  ELSE LET r == CHOOSE x \in rows : \A y \in rows : x.rowid <= y.rowid
           taken == \E t \in into : /\ t.fileId = r.fileId
                                     /\ t.columnId = r.columnId
                                     /\ t.model = r.model
       IN insertOrIgnore(IF taken THEN into ELSE into \cup {r}, rows \ {r})

\* the copy of the earlier version: the token columns are never selected
copyRowsWithoutTokens(old) ==
  renumber(insertOrIgnore({},
             {[r EXCEPT !.promptTokens = 0, !.responseTokens = 0] :
                r \in old.rows}), 1)

\* INSERT OR IGNORE INTO analysis (...) SELECT ... FROM analysis_old: the
\* token columns are copied when the old table has them, else default to 0
copyRows(old) ==
  renumber(insertOrIgnore({},
             {IF old.layout.tokens THEN r
              ELSE [r EXCEPT !.promptTokens = 0, !.responseTokens = 0] :
                r \in old.rows}), 1)

\* the steps of the migration, in order
MigrationSteps == <<"rename", "create", "copy", "drop">>

\* one step of the migration on d = [schema, analysis]
migrationStep(step, d) ==
  CASE step = "rename" ->
         [schema |-> [d.schema EXCEPT
                        !.analysis_old = [exists |-> TRUE,
                                          layout |-> d.schema.analysis,
                                          rows |-> d.analysis],
                        !.analysis = NoTable],
          analysis |-> {}]
    [] step = "create" ->
         [d EXCEPT !.schema.analysis = CurrentLayout]
    [] step = "copy" ->
         [d EXCEPT !.analysis = copyRows(d.schema.analysis_old)]
    [] OTHER ->
         [d EXCEPT !.schema.analysis_old = NoTable]

\* the body of the migration transaction, where step number failAt throws
\* (0: none does)
RECURSIVE migrateFrom(_, _, _)
migrateFrom(i, d, failAt) ==
  IF i > Len(MigrationSteps) THEN [state |-> d, thrown |-> FALSE]
  ELSE IF i = failAt THEN [state |-> d, thrown |-> TRUE]
  ELSE migrateFrom(i + 1, migrationStep(MigrationSteps[i], d), failAt)

\* no request of the renderer is being served across an await
NoRequest == [op |-> "none"]

\* the renderer before a document is uploaded: no file entry, no AI call
\* started, none settled
NoRenderer ==
  [file |-> [status |-> "none", analyzingColumns |-> {}, analysis |-> <<>>],
   inflight |-> {},
   settled |-> <<>>,
   event |-> [op |-> "none", colId |-> NULL, modelId |-> NULL, call |-> 0,
              before |-> [status |-> "none", analyzingColumns |-> {},
                          analysis |-> <<>>],
              direct |-> FALSE]]

\* no handler has returned a batch yet
NoReply == [op |-> "none", files |-> <<>>, ids |-> <<>>, results |-> <<>>]

\* ---------------------------------------------------------------- handlers

\* op: the handler, id: its argument, fs: what happened to the managed file
\* ("none", "missing", "unlinked", "failed"), removed: the subjects whose
\* rows the handler deleted, n: the number of rows that depended on them
\* (cache rows of the subjects, documents of a folder)
Last(op, id, fs, removed, n) ==
  [op |-> op, id |-> id, fs |-> fs, removed |-> removed, n |-> n]

\* ipcMain.handle('save-analysis'): db.saveAnalysis(fileId, results).
\* new Date() has millisecond resolution: two calls may read the same time.
saveAnalysis(fileId, results) ==
  /\ \E timestamp \in {now, now + 1} :
       /\ now' = timestamp
       /\ analysis' = saveAnalysisTx(analysis, fileId, results, timestamp)
       /\ writes' = IF throws(insertRuns(fileId, results, timestamp))
                     THEN writes
                     ELSE writes \o insertRuns(fileId, results, timestamp)
       /\ last' = Last("saveAnalysis", fileId,
                       IF throws(insertRuns(fileId, results, timestamp))
                       THEN "failed" ELSE "none", {}, 0)
  /\ calls' = Append(calls, [fileId |-> fileId, results |-> results])
  /\ UNCHANGED <<subjectTables, prefTables, used>>
  /\ UNCHANGED session

\* ------------------------------------------------------- the analysis cache

Fields == {"summary", "methods"}
Models == {"gemini-2.5-flash", "gemini-2.5-pro"}

\* what the AI call reports for an answer
usageFor(c) == IF c = "X" THEN Usage(10, 5) ELSE Usage(20, 8)

\* one field of one answer, with or without the model that produced it
OneFieldBundles ==
  {Bundle(<<>>, ms, <<>>, usageFor(c), <<Field("summary", Str(c))>>) :
     c \in {"X", "Y"},
     ms \in {NoModels} \cup {[k \in {"summary"} |-> m] : m \in Models}}

\* the renderer's merged analysis object: the whole _responses history
HistoryBundles ==
  {Bundle(<<>>, [k \in {"summary"} |-> ms[2]],
          <<<<Resp("summary", <<By(ms[1], Str("X")), By(ms[2], Str("Y"))>>)>>>>,
          Usage(10, 5), <<Field("summary", Str("Y"))>>) :
     ms \in {x \in Models \X Models : x[1] # x[2]}}

OtherBundles ==
  {Bundle(<<Obj("M")>>, NoModels, <<>>, Usage(10, 5), <<>>),
   Bundle(<<Obj("M")>>, NoModels,
          <<<<Resp("summary", <<By("gemini-2.5-flash", Str("X"))>>),
              Resp("methods", <<By("gemini-2.5-flash", Obj("O"))>>)>>>>,
          Usage(10, 5), <<>>),
   Bundle(<<>>, NoModels, <<>>, <<>>,
          <<Field("methods", JsonStr("O")), Field("summary", Str("X"))>>)}

CacheBundles == OneFieldBundles \cup HistoryBundles \cup OtherBundles

InitPrefs ==
  /\ settings = {}
  /\ custom_columns = {}
  /\ column_configs = {}

InitHistory ==
  /\ calls = <<>>
  /\ writes = <<>>
  /\ last = Last("init", NULL, "none", {}, 0)

\* the application launched once on a new profile and idle
InitSession ==
  /\ schema = CurrentSchema
  /\ app = [running |-> TRUE, launches |-> 1, migrations |-> 0]
  /\ request = NoRequest
  /\ reply = NoReply
  /\ renderer = NoRenderer

\* one uploaded document, nothing analysed yet
InitCache ==
  /\ folders = {}
  /\ files = {[id |-> "f1", folderId |-> NULL]}
  /\ datasets = {}
  /\ dataset_rows = {}
  /\ analysis = {}
  /\ InitPrefs
  /\ InitHistory
  /\ InitSession
  /\ used = {"f1"}
  /\ now = 0

NextCache ==
  /\ Len(calls) < MaxCalls
  /\ \E results \in CacheBundles : saveAnalysis("f1", results)

SpecCache == InitCache /\ [][NextCache]_vars

\* ----------------------------------------------------------------- history

keyOf(p) == <<p.fileId, p.columnId, p.model>>

RECURSIVE sumPrompt(_)
sumPrompt(seq) ==
  IF seq = <<>> THEN 0 ELSE Head(seq).promptTokens + sumPrompt(Tail(seq))

RECURSIVE sumResponse(_)
sumResponse(seq) ==
  IF seq = <<>> THEN 0 ELSE Head(seq).responseTokens + sumResponse(Tail(seq))

writesTo(key) == SelectSeq(writes, LAMBDA p : keyOf(p) = key)
writtenKeys == {keyOf(writes[i]) : i \in 1..Len(writes)}

\* C1: for every (subject, field, model) triple written N >= 1 times, exactly
\* one cache row has that key, its content is the content of the last write
\* and its promptTokens and responseTokens are the sums of the counts
\* supplied by the N writes.
C1_UpsertKeyUnique ==
  \A key \in writtenKeys :
    LET ws == writesTo(key)
        rows == {r \in analysis : keyOf(r) = key}
    IN /\ Cardinality(rows) = 1
       /\ \A r \in rows :
            /\ r.content = ws[Len(ws)].content
            /\ r.promptTokens = sumPrompt(ws)
            /\ r.responseTokens = sumResponse(ws)

\* a key written by two calls, with different contents and non-zero counts
C1_Witness ==
  \E key \in writtenKeys :
    LET ws == writesTo(key)
    IN /\ Len(ws) >= 2
       /\ ws[1].content # ws[Len(ws)].content
       /\ ws[1].promptTokens > 0
       /\ ws[Len(ws)].promptTokens > 0
       /\ Cardinality(analysis) >= 1

\* ------------------------------------------------------------ active model

fieldWrites(id, field) ==
  SelectSeq(writes, LAMBDA p : p.fileId = id /\ p.columnId = field)

\* C3: in the view getAllFiles returns, every non-metadata field shows the
\* value and the model of the most recently written cache row of that field,
\* whichever order SQLite gives to rows with equal timestamps.
C3_LastWriteActive ==
  \A plan \in SortPlans, id \in {f.id : f \in files}, field \in Fields :
    LET ws == fieldWrites(id, field)
        view == getAllFiles(plan)[id]
    IN ws # <<>> =>
         /\ field \in DOMAIN view.fields
         /\ view.fields[field] = parseContent(ws[Len(ws)].content)
         /\ view._models[field] = ws[Len(ws)].model

\* the two answers of the scenario, as the claim writes them
ScenarioX ==
  Bundle(<<>>, NoModels, <<>>, Usage(10, 5), <<Field("summary", Str("X"))>>)
ScenarioY ==
  Bundle(<<>>, NoModels, <<>>, Usage(20, 8), <<Field("summary", Str("Y"))>>)

\* the same answers, each naming its model in _models
TaggedX ==
  [ScenarioX EXCEPT !._models = [k \in {"summary"} |-> "gemini-2.5-flash"]]
TaggedY ==
  [ScenarioY EXCEPT !._models = [k \in {"summary"} |-> "gemini-2.5-pro"]]

Saved(b1, b2) ==
  calls = <<[fileId |-> "f1", results |-> b1], [fileId |-> "f1", results |-> b2]>>

ScenarioView(view) ==
  /\ "summary" \in DOMAIN view.fields
  /\ view.fields["summary"] = Str("Y")
  /\ view._models["summary"] = "gemini-2.5-pro"
  /\ view._responses["summary"] =
       [m \in Models |-> IF m = "gemini-2.5-flash" THEN Str("X") ELSE Str("Y")]
  /\ view._usage # <<>>
  /\ view._usage[1].promptTokens + view._usage[1].responseTokens = 43

\* C4 as stated: after saving {summary: "X", _usage: {10, 5}} and then
\* {summary: "Y", _usage: {20, 8}} for a new document, its view has
\* summary = "Y", _models.summary = gemini-2.5-pro, both answers in
\* _responses.summary and 43 tokens.
C4_ScenarioAsStated ==
  \A plan \in SortPlans :
    Saved(ScenarioX, ScenarioY) => ScenarioView(getAllFiles(plan)["f1"])

\* C4 amended: the same, when each saved result names its model:
\* _models.summary = gemini-2.5-flash in the first, gemini-2.5-pro in the
\* second.
C4_ScenarioTagged ==
  \A plan \in SortPlans :
    Saved(TaggedX, TaggedY) => ScenarioView(getAllFiles(plan)["f1"])

\* both tagged results saved, within the same millisecond
C4_Witness ==
  /\ Saved(TaggedX, TaggedY)
  /\ \A r \in analysis : r.timestamp = 0
  /\ Cardinality(analysis) = 2

\* ------------------------------------------------------- token accounting

\* the shapes of _responses and of the fallback form: no field, one field,
\* two fields, one field answered by two models
ResponseShapes ==
  {<<>>,
   <<Resp("summary", <<By("gemini-2.5-flash", Str("X"))>>)>>,
   <<Resp("summary", <<By("gemini-2.5-flash", Str("X"))>>),
     Resp("methods", <<By("gemini-2.5-pro", Str("X"))>>)>>,
   <<Resp("summary", <<By("gemini-2.5-flash", Str("X")),
                       By("gemini-2.5-pro", Str("X"))>>)>>}

FallbackShapes ==
  {<<>>,
   <<Field("summary", Str("X"))>>,
   <<Field("summary", Str("X")), Field("methods", Str("X"))>>}

Usages == {<<>>, Usage(10, 5), Usage(0, 5)}

UsageBundles ==
  {Bundle(meta, NoModels, <<rs>>, usage, <<>>) :
     meta \in {<<>>, <<Obj("M")>>}, rs \in ResponseShapes, usage \in Usages}
  \cup
  {Bundle(meta, NoModels, <<>>, usage, fs) :
     meta \in {<<>>, <<Obj("M")>>}, fs \in FallbackShapes, usage \in Usages}

\* two uploaded documents, nothing analysed yet
InitUsage ==
  /\ folders = {}
  /\ files = {[id |-> f, folderId |-> NULL] : f \in FileIds}
  /\ datasets = {}
  /\ dataset_rows = {}
  /\ analysis = {}
  /\ InitPrefs
  /\ InitHistory
  /\ InitSession
  /\ used = FileIds
  /\ now = 0

NextUsage ==
  /\ Len(calls) < MaxCalls
  /\ \E fileId \in FileIds, results \in UsageBundles :
       saveAnalysis(fileId, results)

SpecUsage == InitUsage /\ [][NextUsage]_vars

callsFor(id) == SelectSeq(calls, LAMBDA c : c.fileId = id)
rowsOf(id) == {r \in analysis : r.fileId = id}

RECURSIVE sumRowsPrompt(_)
sumRowsPrompt(rows) ==
  IF rows = {} THEN 0
  ELSE LET r == CHOOSE x \in rows : TRUE
       IN r.promptTokens + sumRowsPrompt(rows \ {r})

RECURSIVE sumRowsResponse(_)
sumRowsResponse(rows) ==
  IF rows = {} THEN 0
  ELSE LET r == CHOOSE x \in rows : TRUE
       IN r.responseTokens + sumRowsResponse(rows \ {r})

RECURSIVE reportedPrompt(_)
reportedPrompt(cs) ==
  IF cs = <<>> THEN 0
  ELSE usageOf(Head(cs).results).promptTokens + reportedPrompt(Tail(cs))

RECURSIVE reportedResponse(_)
reportedResponse(cs) ==
  IF cs = <<>> THEN 0
  ELSE usageOf(Head(cs).results).responseTokens + reportedResponse(Tail(cs))

writesRow(results) == insertRuns("f1", results, 0) # <<>>

\* C2: after any sequence of saveAnalysis calls for one subject, each of
\* which wrote at least one row, the promptTokens of the subject's cache rows
\* add up to the promptTokens reported in the _usage of those calls, and
\* likewise the responseTokens, whatever the shape of the bundles.
C2_SubjectTokenTotal ==
  \A id \in FileIds :
    LET cs == callsFor(id)
    IN (\A i \in 1..Len(cs) : writesRow(cs[i].results)) =>
         /\ sumRowsPrompt(rowsOf(id)) = reportedPrompt(cs)
         /\ sumRowsResponse(rowsOf(id)) = reportedResponse(cs)

\* ------------------------------------------------------ subject handlers

fileIds == {f.id : f \in files}
rowIdsIn(d) == {r.id : r \in {x \in dataset_rows : x.datasetId = d}}
cacheRows(ids) == {r \in analysis : r.fileId \in ids}

\* FOREIGN KEY(folderId) REFERENCES folders(id): what an INSERT or UPDATE of
\* files must satisfy (better-sqlite3 enforces foreign keys)
folderExists(folderId) == folderId = NULL \/ folderId \in folders

\* the files table with no action taken when folder `id` is deleted
onDeleteNoAction(rows, id) == rows

\* FOREIGN KEY(folderId) REFERENCES folders(id) ON DELETE SET NULL,
\* applied to the files table when folder `id` is deleted
onDeleteSetNull(rows, id) ==
  {IF f.folderId = id THEN [f EXCEPT !.folderId = NULL] ELSE f : f \in rows}

\* the outcome of existsSync / unlinkSync on a managed file
FsOutcomes == {"missing", "unlinked", "failed"}

\* ipcMain.handle('add-folder')
addFolder(id) ==
  /\ id \in FolderIds \ used
  /\ used' = used \cup {id}
  /\ folders' = folders \cup {id}
  /\ last' = Last("addFolder", id, "none", {}, 0)
  /\ UNCHANGED <<files, datasets, dataset_rows, analysis, prefTables, now,
                 history>>
  /\ UNCHANGED session

\* ipcMain.handle('upload-files'), one file: fs.copy, then db.addFile
uploadFile(id, folderId) ==
  /\ id \in FileIds \ used
  /\ used' = used \cup {id}
  /\ \E copied \in BOOLEAN :
       IF copied /\ folderExists(folderId)
       THEN /\ files' = files \cup {[id |-> id, folderId |-> folderId]}
            /\ last' = Last("uploadFile", id, "none", {}, 0)
       ELSE /\ files' = files
            /\ last' = Last("uploadFile", id, "failed", {}, 0)
  /\ UNCHANGED <<folders, datasets, dataset_rows, analysis, prefTables, now,
                 history>>
  /\ UNCHANGED session

\* ipcMain.handle('update-file-folder'): db.updateFileFolder
updateFileFolder(fileId, folderId) ==
  /\ fileId \in fileIds
  /\ folderExists(folderId)
  /\ files' = {IF f.id = fileId THEN [f EXCEPT !.folderId = folderId] ELSE f :
                 f \in files}
  /\ last' = Last("updateFileFolder", fileId, "none", {}, 0)
  /\ UNCHANGED <<folders, datasets, dataset_rows, analysis, prefTables, used,
                 now, history>>
  /\ UNCHANGED session

\* the earlier deleteFile: the files row only, the cache left to a cascade
deleteFileNoCascade(id) ==
  /\ id \in fileIds
  /\ files' = {f \in files : f.id # id}
  /\ analysis' = analysis
  /\ \E fs \in FsOutcomes :
       last' = Last("deleteFile", id, IF id \in fileIds THEN fs ELSE "none",
                    {id} \cap fileIds, Cardinality(cacheRows({id})))
  /\ UNCHANGED <<folders, datasets, dataset_rows, prefTables, used, now,
                 history>>
  /\ UNCHANGED session

\* ipcMain.handle('delete-file'): db.deleteFile
deleteFile(id) ==
  /\ id \in fileIds
  /\ files' = {f \in files : f.id # id}
  /\ analysis' = {r \in analysis : r.fileId # id}
  /\ \E fs \in FsOutcomes :
       last' = Last("deleteFile", id, IF id \in fileIds THEN fs ELSE "none",
                    {id} \cap fileIds, Cardinality(cacheRows({id})))
  /\ UNCHANGED <<folders, datasets, dataset_rows, prefTables, used, now,
                 history>>
  /\ UNCHANGED session

\* ipcMain.handle('delete-folder'): db.deleteFolder
deleteFolder(id) ==
  /\ id \in folders
  /\ folders' = folders \ {id}
  /\ files' = IF id \in folders THEN onDeleteSetNull(files, id) ELSE files
  /\ column_configs' = column_configs \ {id}
  /\ last' = Last("deleteFolder", id, "none", {},
                  Cardinality({f \in files : f.folderId = id}))
  /\ UNCHANGED <<datasets, dataset_rows, analysis, settings, custom_columns,
                 used, now, history>>
  /\ UNCHANGED session

\* ipcMain.handle('delete-folder-and-files'): db.deleteFolderAndFiles
deleteFolderAndFiles(folderId) ==
  /\ folderId \in folders
  /\ files' = {f \in files : f.folderId # folderId}
  /\ folders' = folders \ {folderId}
  /\ column_configs' = column_configs \ {folderId}
  /\ last' = Last("deleteFolderAndFiles", folderId, "none",
                  {f.id : f \in {x \in files : x.folderId = folderId}}, 0)
  /\ UNCHANGED <<datasets, dataset_rows, analysis, settings, custom_columns,
                 used, now, history>>
  /\ UNCHANGED session

\* where the try block of import-dataset throws for one file: at fs.copy, at
\* reading and parsing, at db.addDataset, at the insert of row number `row`
\* in db.addDatasetRows, or nowhere
Thrown(step, row) == [step |-> step, row |-> row]
ImportOutcomes(n) ==
  {Thrown(step, 0) : step \in {"copy", "parse", "addDataset", "none"}}
  \cup {Thrown("addDatasetRows", row) : row \in 1..n}

\* the rows import-dataset builds for dataset id: rowIndex is the position
rowEntries(id) ==
  [i \in 1..Len(RowIdsOf(id)) |->
     [id |-> RowIdsOf(id)[i], datasetId |-> id, rowIndex |-> i - 1]]

\* db.addDataset: one INSERT, run only when copy and parse went through
addDataset(rows, id, outcome) ==
  IF outcome.step \in {"copy", "parse", "addDataset"} THEN rows
  ELSE rows \cup {[id |-> id, rowCount |-> Len(rowEntries(id))]}

\* db.addDatasetRows: the inserts of one db.transaction, run only when
\* db.addDataset returned
addDatasetRows(rows, id, outcome) ==
  LET entries == rowEntries(id)
      upTo == IF outcome.step = "addDatasetRows" THEN outcome.row - 1
              ELSE Len(entries)
      inserted == rows \cup {entries[i] : i \in 1..upTo}
  IN IF outcome.step \in {"copy", "parse", "addDataset"} THEN rows
     ELSE transaction(rows, [state |-> inserted,
                             thrown |-> outcome.step = "addDatasetRows"])

\* ipcMain.handle('import-dataset'), one file: fs.copy, parse, db.addDataset,
\* db.addDatasetRows, any of which may throw into the catch of the loop
importDataset(id) ==
  /\ id \in DatasetIds \ used
  /\ used' = used \cup {id} \cup {RowIdsOf(id)[i] : i \in 1..Len(RowIdsOf(id))}
  /\ \E outcome \in ImportOutcomes(Len(RowIdsOf(id))) :
       /\ datasets' = addDataset(datasets, id, outcome)
       /\ dataset_rows' = addDatasetRows(dataset_rows, id, outcome)
       /\ last' = Last("importDataset", id,
                       IF outcome.step = "none" THEN "none" ELSE "failed",
                       {}, 0)
  /\ UNCHANGED <<folders, files, analysis, prefTables, now, history>>
  /\ UNCHANGED session

\* deleteDataset relying on ON DELETE CASCADE for everything below the dataset
deleteDatasetRowsOnly(id) ==
  /\ id \in {d.id : d \in datasets}
  /\ dataset_rows' = {r \in dataset_rows : r.datasetId # id}
  /\ datasets' = {d \in datasets : d.id # id}
  /\ analysis' = analysis
  /\ \E fs \in FsOutcomes :
       last' = Last("deleteDataset", id,
                    IF \E d \in datasets : d.id = id THEN fs ELSE "none",
                    rowIdsIn(id), Cardinality(cacheRows(rowIdsIn(id))))
  /\ UNCHANGED <<folders, files, prefTables, used, now, history>>
  /\ UNCHANGED session

\* ipcMain.handle('delete-dataset'): db.deleteDataset
deleteDataset(id) ==
  /\ id \in {d.id : d \in datasets}
  /\ LET rowIds == rowIdsIn(id)
     IN /\ analysis' = IF rowIds # {}
                       THEN {r \in analysis : r.fileId \notin rowIds}
                       ELSE analysis
        /\ dataset_rows' = {r \in dataset_rows : r.datasetId # id}
        /\ datasets' = {d \in datasets : d.id # id}
        /\ \E fs \in FsOutcomes :
             last' = Last("deleteDataset", id,
                          IF \E d \in datasets : d.id = id THEN fs ELSE "none",
                          rowIds, Cardinality(cacheRows(rowIds)))
  /\ UNCHANGED <<folders, files, prefTables, used, now, history>>
  /\ UNCHANGED session

\* ipcMain.handle('save-settings'), one key: db.saveSetting
saveSetting(key, value) ==
  /\ settings' = {x \in settings : x.key # key}
                 \cup {[key |-> key, value |-> value]}
  /\ last' = Last("saveSetting", key, "none", {}, 0)
  /\ UNCHANGED <<subjectTables, analysis, custom_columns, column_configs,
                 used, now, history>>
  /\ UNCHANGED session

\* ipcMain.handle('save-custom-column'): db.saveCustomColumn
saveCustomColumn(id) ==
  /\ custom_columns' = custom_columns \cup {id}
  /\ last' = Last("saveCustomColumn", id, "none", {}, 0)
  /\ UNCHANGED <<subjectTables, analysis, settings, column_configs, used, now,
                 history>>
  /\ UNCHANGED session

\* ipcMain.handle('delete-custom-column'): db.deleteCustomColumn
deleteCustomColumn(id) ==
  /\ id \in custom_columns
  /\ custom_columns' = custom_columns \ {id}
  /\ last' = Last("deleteCustomColumn", id, "none", {}, 0)
  /\ UNCHANGED <<subjectTables, analysis, settings, column_configs, used, now,
                 history>>
  /\ UNCHANGED session

\* ipcMain.handle('save-column-config'): db.saveColumnConfig
saveColumnConfig(folderId) ==
  /\ column_configs' = column_configs \cup {folderId}
  /\ last' = Last("saveColumnConfig", folderId, "none", {}, 0)
  /\ UNCHANGED <<subjectTables, analysis, settings, custom_columns, used, now,
                 history>>
  /\ UNCHANGED session

\* ipcMain.handle('clear-all-data'): db.clearDatabase, then both storage
\* directories are emptied
clearAllData ==
  /\ analysis' = {}
  /\ files' = {}
  /\ folders' = {}
  /\ column_configs' = {}
  /\ last' = Last("clearAllData", NULL, "none", fileIds,
                  Cardinality(analysis))
  /\ UNCHANGED <<datasets, dataset_rows, settings, custom_columns, used, now,
                 history>>
  /\ UNCHANGED session

\* a document or a dataset row answered by one model
StoreBundles ==
  {Bundle(<<>>, [k \in {"summary"} |-> "gemini-2.5-flash"], <<>>,
          Usage(10, 5), <<Field("summary", Str("X"))>>)}

\* an empty database, as initDatabase creates it
Init ==
  /\ folders = {}
  /\ files = {}
  /\ datasets = {}
  /\ dataset_rows = {}
  /\ analysis = {}
  /\ InitPrefs
  /\ InitHistory
  /\ InitSession
  /\ used = {}
  /\ now = 0

\* documents and folders, beside the rows of one dataset
Next ==
  \/ \E id \in FolderIds : addFolder(id)
  \/ \E id \in FileIds, folderId \in FolderIds \cup {NULL} :
       uploadFile(id, folderId)
  \/ \E id \in FileIds, folderId \in FolderIds \cup {NULL} :
       updateFileFolder(id, folderId)
  \/ \E id \in FileIds : deleteFile(id)
  \/ \E id \in FolderIds : deleteFolder(id)
  \/ \E id \in FolderIds : deleteFolderAndFiles(id)
  \/ importDataset("d2")
  \/ /\ Len(calls) < MaxCalls
     /\ \E id \in SubjectIds \cap used, results \in StoreBundles :
          saveAnalysis(id, results)

Spec == Init /\ [][Next]_vars

\* datasets, beside one document
NextDatasets ==
  \/ uploadFile("f1", NULL)
  \/ \E id \in DatasetIds : importDataset(id)
  \/ \E id \in DatasetIds : deleteDataset(id)
  \/ /\ Len(calls) < MaxCalls
     /\ \E id \in SubjectIds \cap used, results \in StoreBundles :
          saveAnalysis(id, results)

SpecDatasets == Init /\ [][NextDatasets]_vars

\* everything the store holds, and clear-all-data
NextClear ==
  \/ \E id \in FolderIds : addFolder(id)
  \/ uploadFile("f1", NULL)
  \/ importDataset("d2")
  \/ /\ Len(calls) < MaxCalls
     /\ \E id \in SubjectIds \cap used, results \in StoreBundles :
          saveAnalysis(id, results)
  \/ \E value \in {"light", "dark"} : saveSetting("theme", value)
  \/ saveCustomColumn("c1")
  \/ deleteCustomColumn("c1")
  \/ \E folderId \in folders : saveColumnConfig(folderId)
  \/ clearAllData

SpecClear == Init /\ [][NextClear]_vars

\* ------------------------------------------------------------ interleaving

\* the results two analyses running side by side may report
InterleaveBundles ==
  {TaggedX, TaggedY,
   Bundle(<<>>, NoModels,
          <<<<Resp("summary", <<By("gemini-2.5-flash", Str("X")),
                                By("gemini-2.5-pro", Str("Y"))>>)>>>>,
          Usage(20, 8), <<>>)}

\* save-analysis requests of concurrently running analyses, served by the
\* main process one at a time in the order they arrive
NextInterleave ==
  /\ Len(calls) < MaxInterleaved
  /\ \E id \in FileIds, results \in InterleaveBundles :
       saveAnalysis(id, results)

SpecInterleave == InitUsage /\ [][NextInterleave]_vars

\* ------------------------------------------------------------------ claims

\* the cache rows of a set of subjects after a step
cacheRowsAfter(ids) == {r \in analysis' : r.fileId \in ids}

\* C5: deleteFile removes the document's row and every cache row of the
\* document, whatever the removal of the managed file on disk did, and leaves
\* every other document, folder, dataset and cache row as it was.
C5_DeleteFileCascade ==
  [][last'.op = "deleteFile" =>
       LET id == last'.id
       IN /\ id \in fileIds
          /\ files' = {f \in files : f.id # id}
          /\ cacheRowsAfter({id}) = {}
          /\ analysis' = analysis \ cacheRows({id})
          /\ UNCHANGED <<folders, datasets, dataset_rows>>]_vars

\* a document with cache rows deleted although its file could not be
\* unlinked, other documents and their cache rows still there
C5_Witness ==
  /\ last.op = "deleteFile"
  /\ last.fs = "failed"
  /\ last.n > 0
  /\ last.id \notin fileIds
  /\ cacheRows({last.id}) = {}
  /\ files # {}
  /\ analysis # {}

\* C6: deleteFolderAndFiles removes the folder, every document in it and every
\* cache row of those documents.
C6_DeleteFolderAndFilesCascade ==
  [][last'.op = "deleteFolderAndFiles" =>
       LET id == last'.id
           members == {f.id : f \in {x \in files : x.folderId = id}}
       IN /\ id \notin folders'
          /\ files' = {f \in files : f.folderId # id}
          /\ cacheRowsAfter(members) = {}]_vars

\* C7: deleteFolder removes the folder, sets folderId to null on every
\* document that was in it, deletes no document and changes no cache row.
C7_DeleteFolderKeepsFiles ==
  [][last'.op = "deleteFolder" =>
       LET id == last'.id
       IN /\ id \in folders
          /\ folders' = folders \ {id}
          /\ {f.id : f \in files'} = fileIds
          /\ Cardinality(files') = Cardinality(files)
          /\ \A f \in files : \E g \in files' :
               /\ g.id = f.id
               /\ g.folderId = IF f.folderId = id THEN NULL ELSE f.folderId
          /\ analysis' = analysis]_vars

\* a folder deleted that held a document with cache rows, beside a document
\* of another folder
C7_Witness ==
  /\ last.op = "deleteFolder"
  /\ last.n > 0
  /\ \E f \in files : f.folderId = NULL /\ cacheRows({f.id}) # {}
  /\ \E f \in files : f.folderId \in folders

\* C8: deleteDataset removes the dataset, all its rows and every cache row of
\* those rows in one step, and leaves the other datasets, their rows, their
\* cache rows and the documents as they were.
C8_DeleteDatasetCascade ==
  [][last'.op = "deleteDataset" =>
       LET id == last'.id
           rowIds == rowIdsIn(id)
       IN /\ \E d \in datasets : d.id = id
          /\ datasets' = {d \in datasets : d.id # id}
          /\ dataset_rows' = {r \in dataset_rows : r.datasetId # id}
          /\ cacheRowsAfter(rowIds) = {}
          /\ analysis' = analysis \ cacheRows(rowIds)
          /\ UNCHANGED <<files, folders>>]_vars

\* a dataset deleted whose rows had cache rows, another dataset and cache
\* rows of other subjects still there
C8_Witness ==
  /\ last.op = "deleteDataset"
  /\ last.n > 0
  /\ last.removed # {}
  /\ cacheRows(last.removed) = {}
  /\ datasets # {}
  /\ analysis # {}

\* C9: after clear-all-data no document, folder, dataset, dataset row or
\* cache row remains, while settings and custom column definitions are kept.
C9_ClearAllDataWipesSubjects ==
  [][last'.op = "clearAllData" =>
       /\ files' = {}
       /\ folders' = {}
       /\ datasets' = {}
       /\ dataset_rows' = {}
       /\ analysis' = {}
       /\ UNCHANGED <<settings, custom_columns>>]_vars

\* the token counters of the cache rows, by key
tokenCounts(db) ==
  {[fileId |-> r.fileId, columnId |-> r.columnId, model |-> r.model,
    promptTokens |-> r.promptTokens, responseTokens |-> r.responseTokens] :
     r \in db}

\* the calls of `seq`, run one after the other on the cache `db`
RECURSIVE serial(_, _)
serial(db, seq) ==
  IF seq = <<>> THEN db
  ELSE serial(saveAnalysisTx(db, Head(seq).fileId, Head(seq).results,
                             Cardinality(db)),
              Tail(seq))

callOrders == Permutations(1..Len(calls))

\* every serial order of the calls served so far gives the token counts the
\* cache holds, and every row holds the sum of the tokens written to its key
SerialTokens ==
  /\ \A order \in callOrders :
       tokenCounts(serial({}, [i \in 1..Len(calls) |-> calls[order[i]]])) =
         tokenCounts(analysis)
  /\ \A r \in analysis :
       /\ r.promptTokens = sumPrompt(writesTo(keyOf(r)))
       /\ r.responseTokens = sumResponse(writesTo(keyOf(r)))

\* C10: however the saveAnalysis calls of concurrent analyses interleave, the
\* token counts equal those of a serial execution of the calls, no increment
\* is lost, and a call for one subject changes no row of another subject.
C10_InterleavingSerial ==
  /\ []SerialTokens
  /\ [][last'.op = "saveAnalysis" =>
          \A other \in SubjectIds \ {last'.id} :
            cacheRowsAfter({other}) = cacheRows({other})]_vars

\* calls for two subjects interleaved, one key written twice
C10_Witness ==
  /\ Len(calls) = MaxInterleaved
  /\ \E i, j \in 1..Len(calls) : calls[i].fileId # calls[j].fileId
  /\ \E i, j \in 1..Len(writes) : i # j /\ keyOf(writes[i]) = keyOf(writes[j])

\* --------------------------------------------------------------- atomicity

\* results whose rows can all be written, and results with a value that
\* insert.run rejects after zero, one or two rows were written
AtomicBundles ==
  {TaggedX, TaggedY,
   Bundle(<<>>, NoModels, <<>>, Usage(10, 5),
          <<Field("summary", Str("Y")), Field("methods", Bool)>>),
   Bundle(<<>>, NoModels, <<>>, Usage(10, 5),
          <<Field("methods", Bool), Field("summary", Str("Y"))>>),
   Bundle(<<Obj("M")>>, NoModels,
          <<<<Resp("summary", <<By("gemini-2.5-flash", Str("Y")),
                                By("gemini-2.5-pro", Bool)>>)>>>>,
          Usage(20, 8), <<>>),
   Bundle(<<Obj("M")>>, NoModels, <<>>, Usage(20, 8),
          <<Field("summary", Str("X"))>>)}

NextAtomic ==
  /\ Len(calls) < MaxCalls
  /\ \E results \in AtomicBundles : saveAnalysis("f1", results)

SpecAtomic == InitCache /\ [][NextAtomic]_vars

\* the values the call tries to store, metadata aside
storedValues(results) ==
  IF results._responses # <<>>
  THEN {e.content : e \in {responseEntries(results._responses[1])[i] :
                             i \in 1..Len(responseEntries(results._responses[1]))}}
  ELSE {results.fields[i].value : i \in 1..Len(results.fields)}

\* C11: a saveAnalysis call in which the write of some row fails persists
\* nothing: no row, no content change and no token increment of the bundle;
\* the cache rows are those from before the call.
C11_SaveAnalysisAllOrNothing ==
  [][last'.op = "saveAnalysis" =>
       LET call == calls'[Len(calls')]
       IN Bool \in storedValues(call.results) => analysis' = analysis]_vars

\* a call that failed on its second or third row, made on a cache that
\* already held rows of the same keys
C11_Witness ==
  /\ last.op = "saveAnalysis"
  /\ last.fs = "failed"
  /\ Len(calls) = 2
  /\ bindable(insertRuns("f1", calls[2].results, now)[1])
  /\ \E r \in analysis :
       sameKey(r, insertRuns("f1", calls[2].results, now)[1])

\* --------------------------------------------------------------- migration

\* require('./database.cjs'); db.initDatabase() when the main process starts.
\* failAt numbers the migration step that throws (0: none); an exception
\* leaves the main process without a window.
initDatabase(failAt) ==
  /\ ~app.running
  /\ app.launches < MaxLaunches
  /\ LET sch == ensureTables(schema)
         need == needsMigration(sch)
         before ==
           [schema |-> IF sch.analysis.exists THEN sch
                       ELSE [sch EXCEPT !.analysis = CurrentLayout],
            analysis |-> analysis]
         result == migrateFrom(1, before, failAt)
         after == IF need THEN transaction(before, result) ELSE before
         thrown == need /\ result.thrown
     IN /\ need \/ failAt = 0
        /\ schema' = after.schema
        /\ analysis' = after.analysis
        /\ app' = IF thrown THEN app
                  ELSE [running |-> TRUE, launches |-> app.launches + 1,
                        migrations |-> app.migrations + IF need THEN 1 ELSE 0]
        /\ last' = Last("initDatabase",
                        IF thrown THEN MigrationSteps[failAt] ELSE NULL,
                        IF thrown THEN "failed" ELSE "none", {},
                        Cardinality(analysis))
  /\ UNCHANGED <<subjectTables, prefTables, used, now, history, request,
                 reply, renderer>>

\* app.on('window-all-closed'): app.quit()
quit ==
  /\ app.running
  /\ request = NoRequest
  /\ app' = [app EXCEPT !.running = FALSE]
  /\ last' = Last("quit", NULL, "none", {}, 0)
  /\ UNCHANGED <<tables, used, now, history, schema, request, reply,
                 renderer>>

\* a cache row an earlier version wrote
LegacyRow(columnId, model, rowid, tokens) ==
  [fileId |-> "f1", columnId |-> columnId,
   content |-> [json |-> FALSE, v |-> "X"], model |-> model, timestamp |-> 0,
   promptTokens |-> IF tokens THEN 10 ELSE 0,
   responseTokens |-> IF tokens THEN 5 ELSE 0, rowid |-> rowid]

\* the contents an analysis table of the given layout may have on disk:
\* one row per field under the two-column key, rowids with gaps
LegacyTables(layout) ==
  IF ~layout.exists THEN {{}}
  ELSE LET a == LegacyRow("summary", "gemini-2.5-flash", 1, layout.tokens)
           b == LegacyRow("summary", "gemini-2.5-pro", 2, layout.tokens)
           c == LegacyRow("methods", "gemini-2.5-flash", 4, layout.tokens)
       IN IF layout.pk3 THEN SUBSET {a, b, c} ELSE SUBSET {a, c}

\* the profile directory as some version of the application left it
InitMigrate ==
  /\ folders = {}
  /\ files = {[id |-> "f1", folderId |-> NULL]}
  /\ datasets = {}
  /\ dataset_rows = {}
  /\ InitPrefs
  /\ InitHistory
  /\ used = {"f1"}
  /\ now = 0
  /\ \E d \in DatasetsLayouts, a \in LegacyLayouts \cup {NoTable, CurrentLayout} :
       /\ schema = [datasets |-> d, analysis |-> a, analysis_old |-> NoTable]
       /\ analysis \in LegacyTables(a)
  /\ app = [running |-> FALSE, launches |-> 0, migrations |-> 0]
  /\ request = NoRequest
  /\ reply = NoReply
  /\ renderer = NoRenderer

NextMigrate ==
  \/ \E failAt \in 0..Len(MigrationSteps) : initDatabase(failAt)
  \/ quit
  \/ /\ app.running
     /\ Len(calls) < MaxCalls
     /\ saveAnalysis("f1", TaggedY)

SpecMigrate == InitMigrate /\ [][NextMigrate]_vars

\* C12: a run of initDatabase on a database that a completed run has already
\* initialised or migrated performs no migration and changes neither the
\* schema nor the number or contents of the cache rows.
C12_InitDatabaseIdempotent ==
  [][last'.op = "initDatabase" /\ app.launches >= 1 =>
       /\ last'.fs = "none"
       /\ app'.migrations = app.migrations
       /\ schema' = schema
       /\ analysis' = analysis]_vars

\* a second launch of a profile whose first launch migrated a legacy table
\* with rows
C12_Witness ==
  /\ last.op = "initDatabase"
  /\ app.launches = 2
  /\ app.migrations = 1
  /\ analysis # {}

\* C13: a migration in which a step fails is rolled back as a whole: the
\* analysis table keeps its layout and its rows, no analysis_old table is
\* left, and the next launch finds the migration still to do.
C13_MigrationRollsBack ==
  [][last'.op = "initDatabase" /\ last'.fs = "failed" =>
       /\ schema'.analysis = schema.analysis
       /\ analysis' = analysis
       /\ ~schema'.analysis_old.exists
       /\ needsMigration(schema')
       /\ ~app'.running]_vars

\* the migration of a table with rows failed at its last step
C13_Witness ==
  /\ last.op = "initDatabase"
  /\ last.fs = "failed"
  /\ last.id = "drop"
  /\ analysis # {}
  /\ schema.analysis.fk

\* -------------------------------------------------------------- pagination

\* the matching rows that come before row r in rowIndex order
rowsBefore(datasetId, search, r) ==
  {x \in matchingRows(datasetId, search) : x.rowIndex < r.rowIndex}

\* the page at [offset, offset + limit) of the matching rows in ascending
\* rowIndex order
IsPage(rows, datasetId, search, limit, offset) ==
  LET n == Cardinality(matchingRows(datasetId, search))
      rest == IF n > offset THEN n - offset ELSE 0
  IN /\ Len(rows) = IF rest < limit THEN rest ELSE limit
     /\ \A i \in 1..Len(rows) :
          /\ \E r \in matchingRows(datasetId, search) :
               /\ r.id = rows[i].id
               /\ r.rowIndex = rows[i].rowIndex
               /\ Cardinality(rowsBefore(datasetId, search, r)) = offset + i - 1

\* C14: getDatasetRows returns the matching rows at positions
\* [offset, offset + limit) in ascending rowIndex order, and its total is the
\* number of matching rows, for every limit, offset and search text.
C14_PagesAndTotal ==
  \A plan \in SortPlans, d \in {x.id : x \in datasets}, search \in Searches,
     limit \in 1..MaxPageSize, offset \in 0..MaxOffset :
    LET res == getDatasetRows(plan, d, limit, offset, search)
    IN /\ IsPage(res.rows, d, search, limit, offset)
       /\ res.total = Cardinality(matchingRows(d, search))

\* ---------------------------------------------------------------- row views

\* answers for a document and for a dataset row: one model, two models in
\* one bundle, metadata alone
RowBundles ==
  {TaggedX, TaggedY, Bundle(<<Obj("M")>>, NoModels, <<>>, Usage(10, 5), <<>>)}
  \cup HistoryBundles

\* one document uploaded and the file of dataset d1 imported
InitRows ==
  /\ folders = {}
  /\ files = {[id |-> "f1", folderId |-> NULL]}
  /\ datasets = {[id |-> "d1", rowCount |-> Len(RowIdsOf("d1"))]}
  /\ dataset_rows =
       {[id |-> RowIdsOf("d1")[i], datasetId |-> "d1", rowIndex |-> i - 1] :
          i \in 1..Len(RowIdsOf("d1"))}
  /\ analysis = {}
  /\ InitPrefs
  /\ InitHistory
  /\ InitSession
  /\ used = {"f1", "d1"} \cup {RowIdsOf("d1")[i] : i \in 1..Len(RowIdsOf("d1"))}
  /\ now = 0

NextRows ==
  /\ Len(calls) < MaxCalls
  /\ \E id \in {"f1", "r1"}, results \in RowBundles : saveAnalysis(id, results)

SpecRows == InitRows /\ [][NextRows]_vars

\* the analysis object getDatasetRows returns for the dataset row r when the
\* whole dataset is listed on one page
rowView(plan, r) ==
  LET res == getDatasetRows(plan, r.datasetId, Cardinality(dataset_rows), 0, <<>>)
      i == CHOOSE k \in 1..Len(res.rows) : res.rows[k].id = r.id
  IN res.rows[i].analysis

\* _usage is present and carries the token sums of the cache rows
UsageSums(view, rows) ==
  /\ view._usage # <<>>
  /\ view._usage[1].promptTokens = sumRowsPrompt(rows)
  /\ view._usage[1].responseTokens = sumRowsResponse(rows)

\* C15: the merged view of every subject that has cache rows, a document or
\* a dataset row, exposes _usage with the sums of promptTokens and of
\* responseTokens over all cache rows of the subject, the metadata row
\* included.
C15_UsageInEveryView ==
  \A plan \in SortPlans :
    /\ \A f \in files :
         rowsOf(f.id) # {} => UsageSums(getAllFiles(plan)[f.id], rowsOf(f.id))
    /\ \A r \in dataset_rows :
         rowsOf(r.id) # {} => UsageSums(rowView(plan, r), rowsOf(r.id))

\* C20: in the view getDatasetRows returns for a dataset row, every field
\* shows the value and the model of the most recently written cache row of
\* that field, as the document view does.
C20_RowViewLastWrite ==
  \A plan \in SortPlans, r \in dataset_rows, field \in Fields :
    LET ws == fieldWrites(r.id, field)
        view == rowView(plan, r)
    IN ws # <<>> =>
         /\ field \in DOMAIN view.fields
         /\ view.fields[field] = parseContent(ws[Len(ws)].content)
         /\ view._models[field] = ws[Len(ws)].model

\* --------------------------------------------------------------------- cost

\* one answer of one model for the field summary, alone or together with
\* the document's metadata; every call reports tokens
CostBundles ==
  {Bundle(meta, [k \in {"summary"} |-> m], <<>>, usageFor(c),
          <<Field("summary", Str(c))>>) :
     meta \in {<<>>, <<Obj("M")>>}, m \in Models, c \in {"X", "Y"}}

NextCost ==
  /\ Len(calls) < MaxCalls
  /\ \E results \in CostBundles : saveAnalysis("f1", results)

SpecCost == InitCache /\ [][NextCost]_vars

\* the model a call was made with: the one its answers are tagged with
callModel(results) ==
  CHOOSE m \in Models : \A k \in DOMAIN results._models : results._models[k] = m

\* the tokens of the calls, each at the rate of the model of the call
RECURSIVE costOfCalls(_)
costOfCalls(cs) ==
  IF cs = <<>> THEN 0
  ELSE LET results == Head(cs).results
           usage == usageOf(results)
       IN usage.promptTokens * inputRate(callModel(results))
          + usage.responseTokens * outputRate(callModel(results))
          + costOfCalls(Tail(cs))

\* C16: the estimatedCost of a subject is the sum over its calls of the
\* call's tokens at the rate of the model the call was made with (pro: 1.25
\* and 5.00 per million, any other: 0.10 and 0.40), whichever cache row
\* absorbed the call's tokens.
C16_CostAtCallModelRate ==
  \A plan \in SortPlans, f \in files :
    callsFor(f.id) # <<>> =>
      LET view == getAllFiles(plan)[f.id]
      IN /\ view._usage # <<>>
         /\ view._usage[1].estimatedCost = costOfCalls(callsFor(f.id))

\* ------------------------------------------------------------------- import

\* the store holds dataset id whole: its datasets row with rowCount N and
\* its N rows
ImportedWhole(id) ==
  /\ [id |-> id, rowCount |-> Len(rowEntries(id))] \in datasets
  /\ {r \in dataset_rows : r.datasetId = id}
       = {rowEntries(id)[i] : i \in 1..Len(rowEntries(id))}

\* the store holds nothing of dataset id
ImportedNothing(id) ==
  /\ \A d \in datasets : d.id # id
  /\ \A r \in dataset_rows : r.datasetId # id

\* C17: after the attempt to import one tabular file, either its datasets
\* row (with rowCount N) and all N of its dataset rows exist, or neither the
\* datasets row nor any dataset row of it exists.
C17_ImportAllOrNothing ==
  last.op = "importDataset" =>
    ImportedWhole(last.id) \/ ImportedNothing(last.id)

\* ------------------------------------------------------------------ batches

MaxBatch == 2

Range(seq) == {seq[i] : i \in 1..Len(seq)}

RECURSIVE SeqsUpTo(_, _)
SeqsUpTo(S, n) ==
  IF n = 0 THEN {<<>>}
  ELSE SeqsUpTo(S, n - 1)
       \cup {Append(q, x) : q \in {p \in SeqsUpTo(S, n - 1) : Len(p) = n - 1},
                            x \in S}

\* the renderer's batches: a document names the folder it is dropped on, a
\* tabular file is read by its extension
UploadBatches == SeqsUpTo({NULL} \cup FolderIds, MaxBatch)
ImportBatches == SeqsUpTo({"csv", "xlsx"}, MaxBatch)

\* the handler's locals while it waits for fs.copy of file Len(ids) + 1:
\* the ids it generated and the ids of the entries pushed to results
Serving(op, batch) ==
  [op |-> op, files |-> batch, ids |-> <<>>, results |-> <<>>]

\* one application on a profile with one folder
InitBatch ==
  /\ folders = {"g1"}
  /\ files = {}
  /\ datasets = {}
  /\ dataset_rows = {}
  /\ analysis = {}
  /\ InitPrefs
  /\ InitHistory
  /\ InitSession
  /\ used = {"g1"}
  /\ now = 0

\* a batch handler entered: it runs to the await of the first copy, or
\* returns at once for an empty batch
batchCall(op, batch, free) ==
  /\ app.running
  /\ request = NoRequest
  /\ Len(batch) <= Cardinality(free)
  /\ IF batch = <<>>
     THEN /\ reply' = Serving(op, batch)
          /\ request' = request
     ELSE /\ request' = Serving(op, batch)
          /\ reply' = reply
  /\ last' = Last(op, NULL, "none", {}, 0)
  /\ UNCHANGED <<tables, used, now, history, schema, app, renderer>>

\* the end of one iteration: the loop goes on to the await of the next copy,
\* or the handler returns results after the last file
batchNext(id, pushed) ==
  LET served == [request EXCEPT
                   !.ids = Append(@, id),
                   !.results = IF pushed THEN Append(@, id) ELSE @]
  IN IF Len(served.ids) = Len(served.files)
     THEN /\ reply' = served
          /\ request' = NoRequest
     ELSE /\ request' = served
          /\ reply' = reply

\* db.addFile: one INSERT, which throws on a folderId no folder has
addFile(rows, id, folderId, thrown) ==
  IF thrown \/ ~folderExists(folderId) THEN rows
  ELSE rows \cup {[id |-> id, folderId |-> folderId]}

\* ipcMain.handle('upload-files'), entered
uploadFiles(batch) == batchCall("upload-files", batch, FileIds \ used)

\* ipcMain.handle('upload-files'), one iteration after its await: fs.copy has
\* settled, then db.addFile and results.push, or the catch block
uploadFilesStep ==
  /\ request.op = "upload-files"
  /\ \E id \in FileIds \ used, thrown \in BOOLEAN :
       LET folderId == request.files[Len(request.ids) + 1]
           pushed == ~thrown /\ folderExists(folderId)
       IN /\ used' = used \cup {id}
          /\ files' = addFile(files, id, folderId, thrown)
          /\ batchNext(id, pushed)
          /\ last' = Last("upload-files", id,
                          IF pushed THEN "none" ELSE "failed", {}, 0)
  /\ UNCHANGED <<folders, datasets, dataset_rows, analysis, prefTables, now,
                 history, schema, app, renderer>>

\* ipcMain.handle('import-dataset'), entered
importDatasets(batch) == batchCall("import-dataset", batch, DatasetIds \ used)

\* ipcMain.handle('import-dataset'), one iteration after its await: fs.copy
\* has settled, then parse, db.addDataset, db.addDatasetRows and
\* results.push, or the catch block from wherever the try block threw
importDatasetStep ==
  /\ request.op = "import-dataset"
  /\ \E id \in DatasetIds \ used :
       \E outcome \in ImportOutcomes(Len(RowIdsOf(id))) :
         /\ used' = used \cup {id} \cup Range(RowIdsOf(id))
         /\ datasets' = addDataset(datasets, id, outcome)
         /\ dataset_rows' = addDatasetRows(dataset_rows, id, outcome)
         /\ batchNext(id, outcome.step = "none")
         /\ last' = Last("import-dataset", id,
                         IF outcome.step = "none" THEN "none" ELSE "failed",
                         {}, 0)
  /\ UNCHANGED <<folders, files, analysis, prefTables, now, history, schema,
                 app, renderer>>

NextBatch ==
  \/ \E batch \in UploadBatches : uploadFiles(batch)
  \/ uploadFilesStep
  \/ \E batch \in ImportBatches : importDatasets(batch)
  \/ importDatasetStep

SpecBatch == InitBatch /\ [][NextBatch]_vars

\* the store holds a row of the file that was given id
Registered(id) ==
  \/ id \in fileIds
  \/ \E d \in datasets : d.id = id
  \/ \E r \in dataset_rows : r.datasetId = id

\* C18: when a batch upload-files or import-dataset call returns, every file
\* of the batch has been processed, and the files with an entry in the
\* returned results are exactly the files with a row in the store: a file
\* that failed at copy, parse or store has neither.
C18_BatchRegistersWhatItReturns ==
  reply.op # "none" =>
    /\ Len(reply.ids) = Len(reply.files)
    /\ \A id \in Range(reply.ids) :
         id \in Range(reply.results) <=> Registered(id)

\* --------------------------------------------------------------- CSV export

\* A string is a sequence of tokens: the double quote, the comma, the line
\* feed, and runs of characters that are none of these.
DQ == "dq"
COMMA == "comma"
LF == "lf"
Plain(run) == <<run>>

MaxLen == 3

\* the labels and cell values the exports are given
Texts == SeqsUpTo({"a", DQ, COMMA, LF}, MaxLen)

\* a cell value: a string, or undefined / null
Text(str) == [t |-> "str", s |-> str]
Undefined == [t |-> "undefined", s |-> <<>>]

includes(str, token) == \E i \in 1..Len(str) : str[i] = token

\* str.replace(/"/g, '""')
RECURSIVE doubleQuotes(_)
doubleQuotes(str) ==
  IF str = <<>> THEN <<>>
  ELSE (IF Head(str) = DQ THEN <<DQ, DQ>> ELSE <<Head(str)>>)
       \o doubleQuotes(Tail(str))

\* `"${str.replace(/"/g, '""')}"`
quoted(str) == <<DQ>> \o doubleQuotes(str) \o <<DQ>>

\* esc of export-dataset-csv
esc(val) ==
  IF val.t = "undefined" THEN <<DQ, DQ>>
  ELSE IF includes(val.s, DQ) \/ includes(val.s, COMMA) \/ includes(val.s, LF)
       THEN quoted(val.s)
       ELSE val.s

\* cells.join(sep)
RECURSIVE join(_, _)
join(cells, sep) ==
  IF cells = <<>> THEN <<>>
  ELSE IF Len(cells) = 1 THEN cells[1]
  ELSE cells[1] \o <<sep>> \o join(Tail(cells), sep)

\* String(row.rowIndex + 1)
StringOfIndex(rowIndex) == Plain(<<"1", "2", "3">>[rowIndex + 1])

\* what an export wrote: the fields of each line as written, the strings
\* they stand for, and the text of the file
Export(op, fields, originals, text) ==
  [op |-> op, fields |-> fields, originals |-> originals, text |-> text]

\* export-dataset-csv for one column and one row: the header line and the
\* line of the row, each ended by a line feed
exportDatasetCsvFile(label, rowIndex, val) ==
  LET headers == <<Plain("Index"), label>>
      headerCells == <<esc(Text(headers[1])), esc(Text(headers[2]))>>
      rowValues == <<StringOfIndex(rowIndex), esc(val)>>
  IN Export("export-dataset-csv", <<headerCells, rowValues>>,
            <<headers, <<StringOfIndex(rowIndex), val.s>>>>,
            join(headerCells, COMMA) \o <<LF>>
            \o join(rowValues, COMMA) \o <<LF>>)

\* handleExportCSV for one document and one dynamic column: the fixed
\* headers and the column's label joined as they are, the cells of the
\* document quoted, lines joined by a line feed
FixedHeaders ==
  <<Plain("File Name"), Plain("Title"), Plain("Authors"),
    Plain("Publication Year"), Plain("DOI/URL"), Plain("Article Type"),
    Plain("Upload Date")>>
FixedValues ==
  <<Plain("paper.pdf"), <<>>, <<>>, <<>>, <<>>, <<>>, Plain("11/4/2026")>>

handleExportCSVFile(label, val) ==
  LET headers == Append(FixedHeaders, label)
      values == Append(FixedValues, val.s)
      rowData == [i \in 1..Len(values) |-> quoted(values[i])]
  IN Export("handleExportCSV", <<headers, rowData>>, <<headers, values>>,
            join(<<join(headers, COMMA), join(rowData, COMMA)>>, LF))

\* one export is asked for: a column label and the value of its cell
InitCsv ==
  /\ folders = {}
  /\ files = {}
  /\ datasets = {}
  /\ dataset_rows = {}
  /\ analysis = {}
  /\ InitPrefs
  /\ InitHistory
  /\ schema = CurrentSchema
  /\ app = [running |-> TRUE, launches |-> 1, migrations |-> 0]
  /\ request \in [op : {"export-dataset-csv", "handleExportCSV"},
                  label : Texts,
                  val : {Text(str) : str \in Texts} \cup {Undefined}]
  /\ reply = NoReply
  /\ renderer = NoRenderer
  /\ used = {}
  /\ now = 0

\* ipcMain.handle('export-dataset-csv')
exportDatasetCsv ==
  /\ request.op = "export-dataset-csv"
  /\ reply' = exportDatasetCsvFile(request.label, 0, request.val)
  /\ request' = NoRequest
  /\ last' = Last("export-dataset-csv", NULL, "none", {}, 0)
  /\ UNCHANGED <<tables, used, now, history, schema, app, renderer>>

\* handleExportCSV of the document table
handleExportCSV ==
  /\ request.op = "handleExportCSV"
  /\ reply' = handleExportCSVFile(request.label, request.val)
  /\ request' = NoRequest
  /\ last' = Last("handleExportCSV", NULL, "none", {}, 0)
  /\ UNCHANGED <<tables, used, now, history, schema, app, renderer>>

NextCsv == exportDatasetCsv \/ handleExportCSV

SpecCsv == InitCsv /\ [][NextCsv]_vars

\* Standard CSV reading (RFC 4180) of the text from position i: a field
\* that opens with a double quote runs to its closing quote, "" inside it
\* is one quote; any other field runs to the next comma or line feed.
\* field: the field read so far, state: "start" of a field, "bare", inside
\* "quotes", or "closed" after the closing quote.
RECURSIVE parseCsv(_, _, _, _, _, _)
parseCsv(text, i, state, field, record, records) ==
  IF i > Len(text)
  THEN IF state = "start" /\ record = <<>> THEN records
       ELSE Append(records, Append(record, field))
  ELSE LET ch == text[i]
       IN IF state = "quotes"
          THEN IF ch # DQ
               THEN parseCsv(text, i + 1, "quotes", Append(field, ch),
                             record, records)
               ELSE IF i < Len(text) /\ text[i + 1] = DQ
               THEN parseCsv(text, i + 2, "quotes", Append(field, DQ),
                             record, records)
               ELSE parseCsv(text, i + 1, "closed", field, record, records)
          ELSE IF ch = COMMA
          THEN parseCsv(text, i + 1, "start", <<>>, Append(record, field),
                        records)
          ELSE IF ch = LF
          THEN parseCsv(text, i + 1, "start", <<>>, <<>>,
                        Append(records, Append(record, field)))
          ELSE IF ch = DQ /\ state = "start"
          THEN parseCsv(text, i + 1, "quotes", field, record, records)
          ELSE parseCsv(text, i + 1, "bare", Append(field, ch), record,
                        records)

\* every field of the export is the quoted form of the string it stands for
AllQuoted(export) ==
  \A l \in 1..Len(export.fields) : \A k \in 1..Len(export.fields[l]) :
    export.fields[l][k] = quoted(export.originals[l][k])

\* reading the file back gives the strings the export was given
ReadsBack(export) ==
  parseCsv(export.text, 1, "start", <<>>, <<>>, <<>>) = export.originals

\* C19: every field written by a CSV export (header cells, the index cell
\* and data cells, in export-dataset-csv and in handleExportCSV) is wrapped
\* in double quotes with every embedded double quote doubled, whether or not
\* the value needs it, and reading the file back with standard CSV rules
\* gives the original strings.
C19_EveryFieldQuoted ==
  reply.op \in {"export-dataset-csv", "handleExportCSV"} =>
    AllQuoted(reply) /\ ReadsBack(reply)

\* ------------------------------------------------------- migration of rows

\* a cache row without its rowid
columnsOf(r) ==
  [fileId |-> r.fileId, columnId |-> r.columnId, model |-> r.model,
   content |-> r.content, timestamp |-> r.timestamp,
   promptTokens |-> r.promptTokens, responseTokens |-> r.responseTokens]

\* the analysis table is not the one this version creates
IsLegacy(layout) ==
  layout.exists /\ (~layout.pk3 \/ layout.fk \/ ~layout.tokens)

PairBundles ==
  {Bundle(meta, ms, resp, Usage(10, 5), fs) :
     meta \in {<<>>, <<Obj("M")>>},
     ms \in {NoModels, [k \in {"summary"} |-> "gemini-2.5-pro"]},
     resp \in {<<>>,
               <<<<Resp("summary", <<By("gemini-2.5-flash", Str("X")),
                                     By("gemini-2.5-pro", Str("Y"))>>)>>>>,
               <<<<Resp("summary", <<By("gemini-2.5-flash", Obj("O"))>>),
                   Resp("methods", <<By("gemini-2.5-pro", Str("X"))>>)>>>>},
     fs \in {<<>>, <<Field("summary", Str("Y")), Field("methods", Obj("O"))>>}}

NextPairs ==
  /\ Len(calls) < MaxCalls
  /\ \E results \in PairBundles : saveAnalysis("f1", results)

SpecPairs == InitCache /\ [][NextPairs]_vars

\* the (field, model, value) triples of a bundle: those listed in
\* _responses, or without _responses the top-level fields with their tag
pairsOf(results) ==
  IF results._responses # <<>>
  THEN LET resp == results._responses[1]
       IN UNION {{<<resp[i].colId, resp[i].modelMap[j].modelId,
                    resp[i].modelMap[j].content>> :
                      j \in 1..Len(resp[i].modelMap)} : i \in 1..Len(resp)}
  ELSE {<<results.fields[i].key,
          IF results.fields[i].key \in DOMAIN results._models
          THEN results._models[results.fields[i].key] ELSE "default",
          results.fields[i].value>> : i \in 1..Len(results.fields)}

\* C22: a saveAnalysis call that commits leaves exactly one cache row for
\* every (field, model) pair of its bundle, holding the pair's value: the
\* pairs listed in _responses, or without _responses every top-level field
\* tagged with _models[key] or else "default"; a metadata payload gives one
\* more row with field "metadata"; no other row is written.
C22_OneRowPerPair ==
  [][last'.op = "saveAnalysis" /\ last'.fs = "none" =>
       LET call == calls'[Len(calls')]
           pairs == pairsOf(call.results)
           meta == call.results.metadata
           written == analysis' \ analysis
       IN /\ \A p \in pairs :
               /\ Cardinality({r \in analysis' :
                                 keyOf(r) = <<call.fileId, p[1], p[2]>>}) = 1
               /\ \A r \in analysis' :
                    keyOf(r) = <<call.fileId, p[1], p[2]>> =>
                      /\ r.content = contentToSave(p[3])
                      /\ r.timestamp = now'
          /\ meta # <<>> =>
               /\ Cardinality({r \in analysis' :
                                 /\ r.fileId = call.fileId
                                 /\ r.columnId = "metadata"}) = 1
               /\ \A r \in analysis' :
                    r.fileId = call.fileId /\ r.columnId = "metadata" =>
                      /\ r.content = JSONstringify(meta[1])
                      /\ r.timestamp = now'
          /\ \A r \in written :
               /\ r.fileId = call.fileId
               /\ \/ \E p \in pairs : r.columnId = p[1] /\ r.model = p[2]
                  \/ r.columnId = "metadata" /\ meta # <<>>]_vars

\* a second call without _responses tagged one of its two fields with a
\* model and the other with "default", next to rows of an earlier call
C22_Witness ==
  /\ last.op = "saveAnalysis"
  /\ Len(calls) = 2
  /\ calls[1].results._responses # <<>>
  /\ calls[2].results._responses = <<>>
  /\ calls[2].results.metadata # <<>>
  /\ \E r \in analysis : r.columnId = "summary" /\ r.model = "gemini-2.5-pro"
                         /\ r.timestamp = now /\ r.content.v = "Y"
  /\ \E r \in analysis : r.columnId = "methods" /\ r.model = "default"
  /\ Cardinality(analysis) = 5

\* ------------------------------------------------------------ dataset stats

\* a column of a result row: <<>> is SQL NULL, <<n>> the number n
SqlNull == <<>>
SqlInt(n) == <<n>>

RECURSIVE sumCost(_)
sumCost(rows) ==
  IF rows = {} THEN 0
  ELSE LET r == CHOOSE x \in rows : TRUE
       IN r.promptTokens * inputRate(r.model)
          + r.responseTokens * outputRate(r.model) + sumCost(rows \ {r})

\* getDatasetStats: SUM(...) FROM analysis a INNER JOIN dataset_rows r ON
\* a.fileId = r.id WHERE r.datasetId = ?. An aggregate without GROUP BY
\* gives one result row also when nothing is joined, its sums being NULL,
\* so `result || {...}` never takes the right-hand side.
getDatasetStats(datasetId) ==
  LET joined == {a \in analysis :
                   \E r \in dataset_rows :
                     a.fileId = r.id /\ r.datasetId = datasetId}
  IN IF joined = {}
     THEN [totalPrompt |-> SqlNull, totalResponse |-> SqlNull,
           estimatedCost |-> SqlNull]
     ELSE [totalPrompt |-> SqlInt(sumRowsPrompt(joined)),
           totalResponse |-> SqlInt(sumRowsResponse(joined)),
           estimatedCost |-> SqlInt(sumCost(joined))]

\* the cache rows whose subject is a row of the dataset
cacheRowsOfDataset(datasetId) == cacheRows(rowIdsIn(datasetId))

\* C23: getDatasetStats(datasetId) returns as totalPrompt and totalResponse
\* the sums of promptTokens and responseTokens over exactly the cache rows
\* whose subject is a row of that dataset, not counting cache rows of
\* documents or of other datasets, and returns 0 for both when the dataset
\* has no cache rows.
C23_DatasetStatsSums ==
  \A d \in datasets :
    /\ getDatasetStats(d.id).totalPrompt
         = SqlInt(sumRowsPrompt(cacheRowsOfDataset(d.id)))
    /\ getDatasetStats(d.id).totalResponse
         = SqlInt(sumRowsResponse(cacheRowsOfDataset(d.id)))

\* ----------------------------------------------------------- dataset export

\* JSON.parse(row.data): header -> value. Every row has the column "name";
\* the file of r1 also has a column called "summary".
dataOf(id) ==
  IF id = "r1"
  THEN [h \in {"name", "summary"} |->
          IF h = "name" THEN Str(DataOf(id)) ELSE Str("raw")]
  ELSE [h \in {"name"} |-> Str(DataOf(id))]

\* the columns an export or the table is asked to show
Columns == <<"name", "summary", "methods">>

\* a value that may be undefined: <<>> or <<value>>
Defined(val) == <<val>>

\* a cursor over every row of the dataset, the search text ignored
getDatasetRowsCursorAll(datasetId, search) ==
  orderByRowIndex(matchingRows(datasetId, <<>>))

\* getDatasetRowsCursor: the matching rows in ascending rowIndex
getDatasetRowsCursor(datasetId, search) ==
  orderByRowIndex(matchingRows(datasetId, search))

\* the body of allAnalysis.forEach(rec => ...) of getAnalysisForRows
RECURSIVE mapRecs(_, _)
mapRecs(analysisMap, recs) ==
  IF recs = <<>> THEN analysisMap
  ELSE LET rec == Head(recs)
           ra == IF rec.fileId \in DOMAIN analysisMap
                 THEN analysisMap[rec.fileId] ELSE NoMap
       IN mapRecs(put(analysisMap, rec.fileId,
                      put(ra, rec.columnId, parseContent(rec.content))),
                  Tail(recs))

\* getAnalysisForRows(rowIds): row id -> (column id -> content)
getAnalysisForRows(plan, rowIds) ==
  IF rowIds = <<>> THEN NoMap
  ELSE mapRecs(NoMap,
               orderByScan(plan, {r \in analysis : r.fileId \in Range(rowIds)}))

\* processChunk: the ids asked of the cache and, per row, the index cell
\* and the value of every column before esc
processChunk(plan, rows, columns) ==
  LET ids == [i \in 1..Len(rows) |-> rows[i].id]
      analysisMap == getAnalysisForRows(plan, ids)
  IN [ids |-> ids,
      lines |->
        [i \in 1..Len(rows) |->
           LET data == dataOf(rows[i].id)
               rowAnalysis == IF rows[i].id \in DOMAIN analysisMap
                              THEN analysisMap[rows[i].id] ELSE NoMap
           IN [id |-> rows[i].id,
               index |-> rows[i].rowIndex + 1,
               values |->
                 [k \in 1..Len(columns) |->
                    IF columns[k] \in DOMAIN rowAnalysis
                    THEN Defined(rowAnalysis[columns[k]])
                    ELSE IF columns[k] \in DOMAIN data
                    THEN Defined(data[columns[k]])
                    ELSE <<>>]]]]

\* for (const row of iterator) { chunk.push(row); if (chunk.length >=
\* CHUNK_SIZE) { processChunk(chunk); chunk = [] } }
\* if (chunk.length > 0) processChunk(chunk)
RECURSIVE exportLoop(_, _, _, _, _)
exportLoop(plan, rows, columns, chunk, written) ==
  IF rows = <<>>
  THEN IF Len(chunk) > 0
       THEN Append(written, processChunk(plan, chunk, columns))
       ELSE written
  ELSE LET pushed == Append(chunk, Head(rows))
       IN IF Len(pushed) >= CHUNK_SIZE
          THEN exportLoop(plan, Tail(rows), columns, <<>>,
                          Append(written, processChunk(plan, pushed, columns)))
          ELSE exportLoop(plan, Tail(rows), columns, pushed, written)

\* the chunks export-dataset-csv writes after the header line
exportDatasetRows(plan, datasetId, search, columns) ==
  exportLoop(plan, getDatasetRowsCursor(datasetId, search), columns, <<>>, <<>>)

\* ipcMain.handle('export-dataset-csv') on the store: no await between the
\* first row read and the last chunk written
exportDataset(datasetId, search) ==
  /\ app.running
  /\ \E d \in datasets : d.id = datasetId
  /\ \E plan \in SortPlans :
       reply' = [op |-> "export-dataset-csv", datasetId |-> datasetId,
                 search |-> search, plan |-> plan,
                 chunks |-> exportDatasetRows(plan, datasetId, search, Columns)]
  /\ last' = Last("export-dataset-csv", datasetId, "none", {}, 0)
  /\ UNCHANGED <<tables, used, now, history, schema, app, request,
                 renderer>>

\* answers saved for two rows of the imported dataset
ExportBundles ==
  {TaggedX, Bundle(<<>>, NoModels, <<>>, Usage(10, 5),
                   <<Field("methods", Obj("O"))>>)}
  \cup HistoryBundles

NextExport ==
  \/ /\ Len(calls) < MaxCalls
     /\ \E id \in {"r1", "r2"}, results \in ExportBundles :
          saveAnalysis(id, results)
  \/ \E search \in Searches : exportDataset("d1", search)

SpecExport == InitRows /\ [][NextExport]_vars

RECURSIVE flatten(_)
flatten(seqs) ==
  IF seqs = <<>> THEN <<>> ELSE Head(seqs) \o flatten(Tail(seqs))

\* the lines of an export, in the order written
linesOf(chunks) == flatten([i \in 1..Len(chunks) |-> chunks[i].lines])

\* C24: export-dataset-csv writes exactly one line for every dataset row
\* matching the search text, in ascending rowIndex order; it writes them in
\* chunks of at most CHUNK_SIZE rows, none empty and only the last one
\* partial, and asks the cache for the row ids of the chunk being written
\* and for no other.
C24_ExportLinesAndChunks ==
  reply.op = "export-dataset-csv" =>
    LET rows == matchingRows(reply.datasetId, reply.search)
        lines == linesOf(reply.chunks)
    IN /\ Len(lines) = Cardinality(rows)
       /\ {lines[i].id : i \in 1..Len(lines)} = {r.id : r \in rows}
       /\ \A i \in 1..Len(lines) :
            \E r \in rows : r.id = lines[i].id /\ lines[i].index = r.rowIndex + 1
       /\ \A i, j \in 1..Len(lines) : i < j => lines[i].index < lines[j].index
       /\ \A c \in 1..Len(reply.chunks) :
            /\ Len(reply.chunks[c].lines) >= 1
            /\ Len(reply.chunks[c].lines) <= CHUNK_SIZE
            /\ c < Len(reply.chunks) => Len(reply.chunks[c].lines) = CHUNK_SIZE
            /\ reply.chunks[c].ids
                 = [i \in 1..Len(reply.chunks[c].lines) |->
                      reply.chunks[c].lines[i].id]

\* an export of the whole dataset that ended with a partial chunk or needed
\* a second chunk, after answers were saved for one of its rows
C24_Witness ==
  /\ reply.op = "export-dataset-csv"
  /\ reply.search = <<>>
  /\ Len(linesOf(reply.chunks)) = 3
  /\ Len(reply.chunks[1].lines) = CHUNK_SIZE
  /\ \E r \in analysis : r.fileId = "r1"

\* ------------------------------------------------------------- cell values

\* cellContent with the priority reversed: the imported value first
cellContentDataFirst(row, col) ==
  LET analysisVal ==
        IF col = "metadata" THEN row.analysis.metadata
        ELSE IF col \in DOMAIN row.analysis.fields
        THEN Defined(row.analysis.fields[col])
        ELSE <<>>
      data == dataOf(row.id)
      originalVal == IF col \in DOMAIN data THEN Defined(data[col]) ELSE <<>>
  IN IF originalVal # <<>> THEN originalVal ELSE analysisVal

\* DatasetRowItem, "Priority: Analysis Result > Original Data > Empty": the
\* content of the cell of column col, for a row as getDatasetRows formats it
cellContent(row, col) ==
  LET analysisVal ==
        IF col = "metadata" THEN row.analysis.metadata
        ELSE IF col \in DOMAIN row.analysis.fields
        THEN Defined(row.analysis.fields[col])
        ELSE <<>>
      data == dataOf(row.id)
      originalVal == IF col \in DOMAIN data THEN Defined(data[col]) ELSE <<>>
  IN IF analysisVal # <<>> THEN analysisVal ELSE originalVal

\* the rows of the exported listing as the table shows them, all on one page
shownRows(plan, datasetId, search) ==
  getDatasetRows(plan, datasetId, Cardinality(dataset_rows), 0, search).rows

\* C25: when an export has just been written, for every dataset row and
\* every column the value the CSV export wrote is the value the row display shows: the cached value of the model
\* the view names in _models for that field if the field has cache rows,
\* otherwise the imported value of the column, otherwise nothing.
C25_ExportShowsDisplayedValue ==
  last.op = "export-dataset-csv" =>
    LET lines == linesOf(reply.chunks)
        shown == shownRows(reply.plan, reply.datasetId, reply.search)
    IN /\ Len(shown) = Len(lines)
       /\ \A i \in 1..Len(lines) : \A k \in 1..Len(Columns) :
            LET col == Columns[k]
                view == shown[i].analysis
                data == dataOf(shown[i].id)
            IN /\ shown[i].id = lines[i].id
               /\ lines[i].values[k] = cellContent(shown[i], col)
               /\ lines[i].values[k] =
                    IF \E r \in analysis :
                         r.fileId = shown[i].id /\ r.columnId = col
                    THEN Defined(view._responses[col][view._models[col]])
                    ELSE IF col \in DOMAIN data THEN Defined(data[col])
                    ELSE <<>>

\* an export of a row whose column "summary" has an imported value and
\* answers of two models, next to columns with only one of the two and with
\* neither
C25_Witness ==
  /\ last.op = "export-dataset-csv"
  /\ reply.search = <<>>
  /\ Cardinality({r \in analysis :
                    r.fileId = "r1" /\ r.columnId = "summary"}) = 2
  /\ \E i \in 1..Len(linesOf(reply.chunks)) :
       /\ linesOf(reply.chunks)[i].id = "r1"
       /\ linesOf(reply.chunks)[i].values[2] # Defined(Str("raw"))
       /\ linesOf(reply.chunks)[i].values[3] = <<>>
  /\ \E i \in 1..Len(linesOf(reply.chunks)) :
       /\ linesOf(reply.chunks)[i].id = "r3"
       /\ linesOf(reply.chunks)[i].values[2] = <<>>

\* --------------------------------------------------------------- late saves

\* an uploaded document and the rows of an imported dataset are analysed by
\* AI calls whose results arrive at any time, also after a delete
NextLate ==
  \/ deleteFile("f1")
  \/ deleteDataset("d1")
  \/ /\ Len(calls) < MaxCalls
     /\ \E id \in {"f1", "r1"}, results \in StoreBundles :
          saveAnalysis(id, results)

SpecLate == InitRows /\ [][NextLate]_vars

\* C30: every cache row belongs to an existing document or dataset row, also
\* when a result is saved after its subject was deleted by deleteFile or
\* deleteDataset.
C30_NoCacheRowWithoutSubject ==
  \A r \in analysis :
    r.fileId \in fileIds \cup {x.id : x \in dataset_rows}

\* ---------------------------------------------------------------- renderer

\* settings.modelId, the model of a call that names none
settingsModelId == "gemini-2.5-flash"

\* what a model answers for a column: a text, possibly the empty text
Answers(modelId) == {Str(modelId), Str("")}

\* JavaScript's truthiness of an answer: the empty string is falsy
truthy(val) == val # Str("")

setKey(obj, key, val) ==
  [k \in DOMAIN obj \cup {key} |-> IF k = key THEN val ELSE obj[k]]

deleteKeys(obj, keys) == [k \in DOMAIN obj \ keys |-> obj[k]]

\* the calls of the renderer started so far
started(r) == Cardinality(r.inflight) + Len(r.settled)

\* analyzePdf's result for the columns of a call: the metadata, which every
\* call extracts, the answer of each column and the model that gave it
analyzePdf(call, answer) ==
  [metadata |-> <<Obj("M")>>,
   fields |-> [c \in call.columns |-> answer[c]],
   _models |-> [c \in call.columns |-> call.modelToUse],
   _responses |-> NoMap]

\* processFileAnalysis up to its await: the target columns are cleared when
\* merging, listed in analyzingColumns, the status set to 'analyzing' and
\* the call to analyzePdf started
processFileAnalysis(r, columnsToAnalyze, merge, overrideModelId) ==
  LET f == r.file
      newAnalysis ==
        IF merge /\ f.analysis # <<>>
        THEN <<[f.analysis[1] EXCEPT
                  !.fields = deleteKeys(@, columnsToAnalyze)]>>
        ELSE f.analysis
      modelToUse ==
        IF overrideModelId # NULL THEN overrideModelId ELSE settingsModelId
      call == [id |-> started(r) + 1,
               columns |-> columnsToAnalyze,
               merge |-> merge,
               modelToUse |-> modelToUse,
               before |-> f.analysis]
  IN [r EXCEPT
        !.file = [status |-> "analyzing",
                  analyzingColumns |-> f.analyzingColumns \cup columnsToAnalyze,
                  analysis |-> newAnalysis],
        !.inflight = @ \cup {call}]

\* the analysis of the file after a call resolved with result
finalAnalysis(f, call, result) ==
  IF call.merge /\ f.analysis # <<>>
  THEN LET old == f.analysis[1]
       IN [old EXCEPT
             !.fields = [c \in DOMAIN old.fields \cup call.columns |->
                           IF c \in call.columns THEN result.fields[c]
                           ELSE old.fields[c]],
             !._models = [c \in DOMAIN old._models \cup call.columns |->
                            IF c \in call.columns THEN result._models[c]
                            ELSE old._models[c]],
             !._responses =
               [c \in DOMAIN old._responses \cup call.columns |->
                  IF c \in call.columns
                  THEN setKey(IF c \in DOMAIN old._responses
                              THEN old._responses[c] ELSE NoMap,
                              result._models[c], result.fields[c])
                  ELSE old._responses[c]]]
  ELSE [result EXCEPT
          !._responses = [c \in call.columns |->
                            setKey(NoMap, result._models[c],
                                   result.fields[c])]]

\* the columns still analysed when a call settles
remainingAnalyzing(f, call) == f.analyzingColumns \ call.columns

\* processFileAnalysis after its await, analyzePdf resolved
processFileAnalysisThen(call, answer) ==
  LET f == renderer.file
      result == analyzePdf(call, answer)
      remaining == remainingAnalyzing(f, call)
  IN /\ call \in renderer.inflight
     /\ renderer' =
          [file |-> [status |-> IF remaining # {} THEN "analyzing"
                                ELSE "completed",
                     analyzingColumns |-> remaining,
                     analysis |-> <<finalAnalysis(f, call, result)>>],
           inflight |-> renderer.inflight \ {call},
           settled |-> Append(renderer.settled,
                              [call |-> call, ok |-> TRUE,
                               result |-> <<result>>]),
           event |-> [op |-> "then", colId |-> NULL, modelId |-> NULL,
                      call |-> call.id, before |-> f,
                      direct |-> renderer.event.call = call.id
                                 /\ renderer.event.op
                                      \in {"handleFileUpload",
                                           "handleAnalyzeColumn"}]]
     /\ UNCHANGED <<tables, used, now, history, last, schema, app, request,
                    reply>>

\* processFileAnalysis after its await, analyzePdf rejected
processFileAnalysisCatch(call) ==
  LET f == renderer.file
      remaining == remainingAnalyzing(f, call)
  IN /\ call \in renderer.inflight
     /\ renderer' =
          [file |-> [f EXCEPT
                       !.status = IF remaining # {} THEN "analyzing"
                                  ELSE "error",
                       !.analyzingColumns = remaining],
           inflight |-> renderer.inflight \ {call},
           settled |-> Append(renderer.settled,
                              [call |-> call, ok |-> FALSE,
                               result |-> <<>>]),
           event |-> [op |-> "catch", colId |-> NULL, modelId |-> NULL,
                      call |-> call.id, before |-> f,
                      direct |-> renderer.event.call = call.id
                                 /\ renderer.event.op
                                      \in {"handleFileUpload",
                                           "handleAnalyzeColumn"}]]
     /\ UNCHANGED <<tables, used, now, history, last, schema, app, request,
                    reply>>

\* handleFileUpload with the API key set: the new file entry and its
\* metadata analysis, a call with an empty list of columns and no merge
handleFileUpload ==
  /\ renderer.file.status = "none"
  /\ renderer' =
       [processFileAnalysis(
          [renderer EXCEPT !.file.status = "uploading"], {}, FALSE, NULL)
        EXCEPT !.event = [op |-> "handleFileUpload", colId |-> NULL,
                          modelId |-> NULL, call |-> started(renderer) + 1,
                          before |-> renderer.file, direct |-> FALSE]]
  /\ UNCHANGED <<tables, used, now, history, last, schema, app, request,
                 reply>>

\* the test of handleAnalyzeColumn for a cached response of the model
cachedResponse(f, colId, modelId) ==
  /\ modelId # NULL
  /\ f.analysis # <<>>
  /\ colId \in DOMAIN f.analysis[1]._responses
  /\ modelId \in DOMAIN f.analysis[1]._responses[colId]
  /\ truthy(f.analysis[1]._responses[colId][modelId])

\* handleAnalyzeColumn: the view of the column is switched to the cached
\* response of the model, or a merging call for the column is started
handleAnalyzeColumn(colId, modelId) ==
  LET f == renderer.file
      cached == cachedResponse(f, colId, modelId)
      event == [op |-> "handleAnalyzeColumn", colId |-> colId,
                modelId |-> modelId,
                call |-> IF cached THEN 0 ELSE started(renderer) + 1,
                before |-> f, direct |-> FALSE]
  IN /\ f.status # "none"
     /\ cached \/ started(renderer) < MaxAnalyses
     /\ renderer' =
          IF cached
          THEN [renderer EXCEPT
                  !.file.analysis =
                    <<[f.analysis[1] EXCEPT
                         !.fields =
                           setKey(@, colId,
                                  f.analysis[1]._responses[colId][modelId]),
                         !._models = setKey(@, colId, modelId)]>>,
                  !.event = event]
          ELSE [processFileAnalysis(renderer, {colId}, TRUE, modelId)
                EXCEPT !.event = event]
     /\ UNCHANGED <<tables, used, now, history, last, schema, app, request,
                    reply>>

InitRenderer == InitCache

NextRenderer ==
  \/ handleFileUpload
  \/ \E colId \in Fields, modelId \in Models \cup {NULL} :
       handleAnalyzeColumn(colId, modelId)
  \/ \E call \in renderer.inflight :
       \E answer \in [call.columns -> Answers(call.modelToUse)] :
         processFileAnalysisThen(call, answer)
  \/ \E call \in renderer.inflight : processFileAnalysisCatch(call)

SpecRenderer == InitRenderer /\ [][NextRenderer]_vars

\* C27: while an analysis call of the file is in flight the status is
\* 'analyzing' and every column of every call in flight is listed in
\* analyzingColumns; once calls were started and none is in flight any more,
\* analyzingColumns is empty and the status is 'completed' or 'error'.
C27_AnalyzingWhileInFlight ==
  LET f == renderer.file
  IN /\ renderer.inflight # {} =>
          /\ f.status = "analyzing"
          /\ \A call \in renderer.inflight :
               call.columns \subseteq f.analyzingColumns
     /\ (renderer.inflight = {} /\ renderer.settled # <<>>) =>
          /\ f.analyzingColumns = {}
          /\ f.status \in {"completed", "error"}

\* the file holds a response of the model for the column, whatever its value
holdsResponse(f, colId, modelId) ==
  /\ modelId # NULL
  /\ f.analysis # <<>>
  /\ colId \in DOMAIN f.analysis[1]._responses
  /\ modelId \in DOMAIN f.analysis[1]._responses[colId]

\* C26: when handleAnalyzeColumn(fileId, colId, prompt, modelId) has just run
\* on a file that held a cached response for (colId, modelId), no AI call
\* was started, the displayed value of colId is that response,
\* _models[colId] is modelId, and _responses, the status and every other
\* field are as before; a call is started only when no response is cached.
C26_CachedSwitchesViewOnly ==
  LET e == renderer.event
      f == renderer.file
      b == e.before
  IN (e.op = "handleAnalyzeColumn" /\ holdsResponse(b, e.colId, e.modelId))
     => /\ e.call = 0
        /\ f.status = b.status
        /\ f.analyzingColumns = b.analyzingColumns
        /\ f.analysis # <<>>
        /\ f.analysis[1].fields =
             setKey(b.analysis[1].fields, e.colId,
                    b.analysis[1]._responses[e.colId][e.modelId])
        /\ f.analysis[1]._models =
             setKey(b.analysis[1]._models, e.colId, e.modelId)
        /\ f.analysis[1]._responses = b.analysis[1]._responses
        /\ f.analysis[1].metadata = b.analysis[1].metadata

\* C28: when every call started for the file has succeeded, the analysis
\* holds the metadata and, for every call and each of its columns, a
\* displayed value and the _responses entry of the call's model, equal to
\* the call's answer unless a later call of that model answered the column
\* again, whatever the order in which the calls completed.
C28_OverlappingCallsAllKept ==
  LET a == renderer.file.analysis
      done == renderer.settled
  IN (/\ renderer.inflight = {}
      /\ done # <<>>
      /\ \A i \in 1..Len(done) : done[i].ok)
     => /\ a # <<>>
        /\ a[1].metadata # <<>>
        /\ \A i \in 1..Len(done) : \A c \in done[i].call.columns :
             LET modelId == done[i].call.modelToUse
             IN /\ c \in DOMAIN a[1].fields
                /\ c \in DOMAIN a[1]._responses
                /\ modelId \in DOMAIN a[1]._responses[c]
                /\ (\A j \in (i + 1)..Len(done) :
                      ~(c \in done[j].call.columns
                        /\ done[j].call.modelToUse = modelId))
                   => a[1]._responses[c][modelId]
                        = done[i].result[1].fields[c]

\* C29: when a merging call has just failed and nothing else happened to the
\* file since the call was started, the analysis of the file is the one it
\* had before the call started: displayed values, _models and _responses.
C29_FailedReanalysisChangesNothing ==
  LET e == renderer.event
      done == renderer.settled
  IN (e.op = "catch" /\ e.direct /\ done[Len(done)].call.merge)
     => renderer.file.analysis = done[Len(done)].call.before

====
